---------------------------- MODULE Spec2Model ----------------------------
(***************************************************************************)
(* A model of the softphone browser-extension content script.              *)
(*                                                                         *)
(*   src/content.js        the current content script (SoftphoneManager,   *)
(*                         the window message relay, the credential push)  *)
(*   src/unnamed/part_000  an earlier variant of the same class, in which  *)
(*                         the widget is created on open and removed on    *)
(*                         close                                           *)
(*                                                                         *)
(* Strings are sequences of one-character strings, so that stripping and   *)
(* the regular expressions are computed character by character.  Pixel     *)
(* lengths are carried in half pixels (Px(x) = 2*x), so that the halving   *)
(* in calculateWidgetPosition is exact.                                     *)
(***************************************************************************)
EXTENDS Integers, Sequences, FiniteSets, TLC

VARIABLES
  \* ---- SoftphoneManager fields (content.js:2-26) ----
  isEnabled,                 \* this.isEnabled
  callHistory,               \* this.callHistory, newest first
  widget,                    \* this.widget: 0 = null, else the container's id
  isWidgetVisible,           \* this.isWidgetVisible
  settings,                  \* this.settings
  floatingButton,            \* domCache has 'floatingButton'
  outsideClickHandlerBound,  \* 0 = null, else the bound handler's id
  mutationObserver,          \* this.mutationObserver is observing
  \* ---- the page ----
  domContainers,             \* ids of the widget containers in document.body
  domButton,                 \* the floating button is in document.body
  widgetStyle,               \* inline style of the element this.widget names
  iframeOnload,              \* the iframe's onload handler
  notifications,             \* toasts in document.body, oldest first
  processedLinks,            \* tel links carrying the per-link click listener
  processedElements,         \* this.processedElements: parents already rewritten
  highlights,                \* parents whose number is wrapped in a highlight span
  docClick,                  \* boundHandleClick is a capture listener of document
  docKeydown,                \* boundHandleKeyboard is a listener of document
  outsideListeners,          \* outside-click handlers registered on document
  \* ---- pending callbacks ----
  listenerTimers,            \* pending setTimeout(addEventListener, 0) of showWidget
  callTimers,                \* numbers of the pending 1000 ms re-sends
  idleHighlights,            \* pending scheduleHighlighting callbacks
  \* ---- extension storage ----
  syncSettings,              \* sync key softphoneSettings: <<>> or <<value>>
  localCallHistory,          \* local key callHistory: <<>> or <<value>>
  localCreds,                \* local key softphoneCredentials: <<>> or <<value>>
  \* ---- the tabs that run the script; tab 1 is the manager's own ----
  changeQueue,               \* per tab, the storage changes not yet delivered
  tabIframes,                \* the other tabs whose widget iframe exists
  \* ---- environment ----
  viewport,                  \* <<window.innerWidth, window.innerHeight>>
  buttonRect,                \* the floating button's bounding rectangle
  syncOk,                    \* chrome.storage.sync calls currently succeed
  clock,                     \* number of Date readings taken so far
  \* ---- control and observation ----
  pc,                        \* "constructed" | "ready" | "destroyed" | "fn"
  epoch,                     \* the clock when the run began
  variant,                   \* which source file runs: "content" | "part_000"
  lastOp,                    \* the handler that ran last
  lastArg,                   \* its argument
  pre,                       \* the observed fields before it ran
  prevOp,                    \* the handler that ran before lastOp, if a repeatable one
  prevArg,                   \* its argument
  prevVisible,               \* isWidgetVisible before prevOp ran
  posted,                    \* messages posted to the iframe by the last step
  defaultPrevented,          \* the last click's default action was prevented
  callsInitiated,            \* initiateCall runs during the last step
  callArgs,                  \* argument of the pure function under check
  callResult,                \* <<>> before the call, <<value>> after
  closure,                   \* the variables a throttle/debounce wrapper closes over
  callPosts,                 \* per number, the SOFTPHONE_CALL messages posted so far
  dom                        \* the document tree the highlighter walks

mgrVars == <<isEnabled, callHistory, widget, isWidgetVisible, settings,
             floatingButton, outsideClickHandlerBound, mutationObserver>>
pageVars == <<domContainers, domButton, widgetStyle, iframeOnload, notifications,
              processedLinks, processedElements, highlights, docClick, docKeydown,
              outsideListeners>>
timerVars == <<listenerTimers, callTimers, idleHighlights>>
storeVars == <<syncSettings, localCallHistory, localCreds>>
tabVars == <<changeQueue, tabIframes>>
envVars == <<viewport, buttonRect, syncOk, clock>>
obsVars == <<lastOp, lastArg, pre, prevOp, prevArg, prevVisible, posted,
             defaultPrevented, callsInitiated>>
fnVars == <<callArgs, callResult>>
auxVars == <<closure, callPosts, dom>>
vars == <<mgrVars, pageVars, timerVars, storeVars, tabVars, envVars, pc, epoch,
          variant, obsVars, fnVars, auxVars>>

----------------------------------------------------------------------------
(* Bounds of the model *)

MaxDigits == 17        \* longest digit run among the validation inputs
MaxCalls == 2          \* calls recorded per run
MaxToasts == 2         \* toasts in the page at once
MaxCallTimers == 1     \* pending 1000 ms re-sends at once
MaxListenerTimers == 1 \* pending 0 ms listener registrations at once
MaxChanges == 1        \* storage changes a tab has not yet been told of
MaxIdle == 1           \* pending idle callbacks counted; more are folded into these

----------------------------------------------------------------------------
(* Strings *)

Digits == {"0", "1", "2", "3", "4", "5", "6", "7", "8", "9"}

RECURSIVE Rep(_, _)
Rep(c, n) == IF n = 0 THEN <<>> ELSE <<c>> \o Rep(c, n - 1)

Min(a, b) == IF a <= b THEN a ELSE b
Max(a, b) == IF a >= b THEN a ELSE b

\* phoneNumber.replace(/[^\d+]/g, '')
cleanPhoneNumber(phoneNumber) ==
  SelectSeq(phoneNumber, LAMBDA c : c \in Digits \cup {"+"})

\* the character class [\d\s\-().] of the validation pattern
ValidationClass == Digits \cup {" ", "-", "(", ")", "."}

\* /^[+]?[\d\s\-().]{7,15}$/.test(s)
MatchesValidationPattern(s) ==
  \E p \in {0, 1} :
    /\ p = 1 => (Len(s) >= 1 /\ s[1] = "+")
    /\ Len(s) - p >= 7
    /\ Len(s) - p <= 15
    /\ \A i \in (p + 1)..Len(s) : s[i] \in ValidationClass

isValidPhoneNumber(phoneNumber) ==
  LET cleaned == cleanPhoneNumber(phoneNumber)
  IN  /\ MatchesValidationPattern(cleaned)
      /\ Len(cleaned) >= 7
      /\ Len(cleaned) <= 15

----------------------------------------------------------------------------
(* calculateWidgetPosition *)

widgetWidth == 380
widgetHeight == 580
spacing == 10
margin == 20

Px(x) == 2 * x

NoButton == <<>>
HasButton(rect) == <<rect>>

\* One axis of calculateWidgetPosition: lo/hi are the button's near and far
\* edge, size the default widget size, extent the viewport size.  In half
\* pixels.
ActualSize(size, extent) == Min(size, extent - (2 * margin))

CenteredPos(size, extent) ==
  Max(Px(margin), extent - ActualSize(size, extent))

AxisPos(lo, hi, size, extent) ==
  LET actual == ActualSize(size, extent)
      pos == IF lo - actual - spacing >= margin
               THEN Px(lo - actual - spacing)
               ELSE IF hi + spacing + actual <= extent - margin
                      THEN Px(hi + spacing)
                      ELSE CenteredPos(size, extent)
  IN  Max(Px(margin), Min(pos, Px(extent - actual - margin)))

\* The object calculateWidgetPosition returns, as a function from the keys it
\* holds to lengths in half pixels.
calculateWidgetPosition(vp, button) ==
  LET viewportWidth == vp[1]
      viewportHeight == vp[2]
      actualWidgetWidth == ActualSize(widgetWidth, viewportWidth)
      actualWidgetHeight == ActualSize(widgetHeight, viewportHeight)
  IN  IF button = NoButton
        THEN [k \in {"left", "top"} |->
                IF k = "left" THEN CenteredPos(widgetWidth, viewportWidth)
                              ELSE CenteredPos(widgetHeight, viewportHeight)]
        ELSE LET rect == button[1]
                 keys == {"left", "top"}
                           \cup (IF actualWidgetWidth # widgetWidth
                                   THEN {"width"} ELSE {})
                           \cup (IF actualWidgetHeight # widgetHeight
                                   THEN {"height"} ELSE {})
             IN  [k \in keys |->
                    CASE k = "left" ->
                           AxisPos(rect.left, rect.right, widgetWidth, viewportWidth)
                      [] k = "top" ->
                           AxisPos(rect.top, rect.bottom, widgetHeight, viewportHeight)
                      [] k = "width" -> Px(actualWidgetWidth)
                      [] k = "height" -> Px(actualWidgetHeight)]

\* Object.keys(position).forEach(key => style[key] = position[key])
ApplyPosition(style, position) ==
  [k \in (DOMAIN style) \cup (DOMAIN position) |->
     IF k \in DOMAIN position THEN position[k] ELSE style[k]]

----------------------------------------------------------------------------
(* The program state as one record, so that a handler is a function from    *)
(* state to state and handlers compose as the calls in the source do.       *)

HistoryCap == 50

\* The tabs in which the content script runs; the manager modelled is tab 1.
Tabs == {1, 2}

Cur ==
  [isEnabled |-> isEnabled, callHistory |-> callHistory, widget |-> widget,
   isWidgetVisible |-> isWidgetVisible, settings |-> settings,
   floatingButton |-> floatingButton,
   outsideClickHandlerBound |-> outsideClickHandlerBound,
   mutationObserver |-> mutationObserver,
   domContainers |-> domContainers, domButton |-> domButton,
   widgetStyle |-> widgetStyle, iframeOnload |-> iframeOnload,
   notifications |-> notifications, processedLinks |-> processedLinks,
   processedElements |-> processedElements, highlights |-> highlights,
   docClick |-> docClick, docKeydown |-> docKeydown,
   outsideListeners |-> outsideListeners,
   listenerTimers |-> listenerTimers, callTimers |-> callTimers,
   idleHighlights |-> idleHighlights,
   syncSettings |-> syncSettings, localCallHistory |-> localCallHistory,
   localCreds |-> localCreds, changeQueue |-> changeQueue,
   tabIframes |-> tabIframes,
   viewport |-> viewport, buttonRect |-> buttonRect, syncOk |-> syncOk,
   clock |-> clock,
   posted |-> <<>>, defaultPrevented |-> FALSE, callsInitiated |-> 0]

Install(t) ==
  /\ isEnabled' = t.isEnabled
  /\ callHistory' = t.callHistory
  /\ widget' = t.widget
  /\ isWidgetVisible' = t.isWidgetVisible
  /\ settings' = t.settings
  /\ floatingButton' = t.floatingButton
  /\ outsideClickHandlerBound' = t.outsideClickHandlerBound
  /\ mutationObserver' = t.mutationObserver
  /\ domContainers' = t.domContainers
  /\ domButton' = t.domButton
  /\ widgetStyle' = t.widgetStyle
  /\ iframeOnload' = t.iframeOnload
  /\ notifications' = t.notifications
  /\ processedLinks' = t.processedLinks
  /\ processedElements' = t.processedElements
  /\ highlights' = t.highlights
  /\ docClick' = t.docClick
  /\ docKeydown' = t.docKeydown
  /\ outsideListeners' = t.outsideListeners
  /\ listenerTimers' = t.listenerTimers
  /\ callTimers' = t.callTimers
  /\ idleHighlights' = t.idleHighlights
  /\ syncSettings' = t.syncSettings
  /\ localCallHistory' = t.localCallHistory
  /\ localCreds' = t.localCreds
  /\ changeQueue' = t.changeQueue
  /\ tabIframes' = t.tabIframes
  /\ viewport' = t.viewport
  /\ buttonRect' = t.buttonRect
  /\ syncOk' = t.syncOk
  /\ clock' = t.clock
  /\ posted' = t.posted
  /\ defaultPrevented' = t.defaultPrevented
  /\ callsInitiated' = t.callsInitiated

\* The fields the properties compare across a step.
Observed(s) ==
  [isEnabled |-> s.isEnabled, callHistory |-> s.callHistory,
   widget |-> s.widget, isWidgetVisible |-> s.isWidgetVisible,
   settings |-> s.settings, floatingButton |-> s.floatingButton,
   domButton |-> s.domButton, domContainers |-> s.domContainers,
   display |-> s.widgetStyle.display, syncSettings |-> s.syncSettings,
   localCreds |-> s.localCreds, notifications |-> s.notifications,
   outsideClickHandlerBound |-> s.outsideClickHandlerBound,
   localCallHistory |-> s.localCallHistory]

\* The capped resources stay within the bounds of the model.
WithinBounds(t) ==
  /\ Len(t.notifications) <= MaxToasts
  /\ Len(t.callTimers) <= MaxCallTimers
  /\ t.listenerTimers <= MaxListenerTimers
  /\ \A tab \in Tabs : Len(t.changeQueue[tab]) <= MaxChanges
  /\ t.clock - epoch <= MaxCalls

\* The operations whose immediate repetition is examined; for these the
\* step before the last is remembered too.
RepeatableOps == {"toggleWidget", "updateSettings"}

\* One handler run: op names the handler, arg its argument, t the state it
\* leaves.
Record(op, arg, t) ==
  /\ Install(t)
  /\ lastOp' = op
  /\ lastArg' = arg
  /\ pre' = Observed(Cur)
  /\ prevOp' = IF lastOp \in RepeatableOps THEN lastOp ELSE "other"
  /\ prevArg' = IF lastOp \in RepeatableOps THEN lastArg ELSE <<>>
  /\ prevVisible' = IF lastOp \in RepeatableOps THEN pre.isWidgetVisible ELSE FALSE

\* A handler run that touches none of the auxiliary variables.
Handler(op, arg, t) ==
  /\ WithinBounds(t)
  /\ Record(op, arg, t)

Step(op, arg, t) ==
  /\ Handler(op, arg, t)
  /\ UNCHANGED <<epoch, variant, fnVars, auxVars>>

----------------------------------------------------------------------------
(* Handlers of src/content.js *)

\* A toast; highlighted: a highlight pass has wrapped the number in its text
Notification(message, type) ==
  [message |-> message, type |-> type, highlighted |-> FALSE]

showNotification(s, message, type) ==
  [s EXCEPT !.notifications = Append(@, Notification(message, type))]

ButtonOf(s) == IF s.floatingButton THEN HasButton(s.buttonRect) ELSE NoButton

CallMessage(number) == [type |-> "SOFTPHONE_CALL", number |-> number]

\* The smallest handler id no registered listener carries: bind() makes a
\* new function object each time.
NewHandler(s) ==
  CHOOSE h \in 1..(Cardinality(s.outsideListeners) + 1) :
    h \notin s.outsideListeners

showWidget_Recreate(s, phoneNumber) ==
  LET id == CHOOSE i \in 1..(Cardinality(s.domContainers) + 2) :
              i \notin s.domContainers \cup {s.widget}
  IN  [s EXCEPT !.domContainers = @ \cup {id}, !.widget = id,
                !.widgetStyle = [@ EXCEPT !.display = "block"],
                !.isWidgetVisible = TRUE]

showWidget_Rebind(s, phoneNumber) ==
  IF s.widget = 0
    THEN s
    ELSE
      LET position == calculateWidgetPosition(s.viewport, ButtonOf(s))
          s1 == [s EXCEPT
                   !.widgetStyle =
                      [ApplyPosition(@, position) EXCEPT !.display = "block"],
                   !.isWidgetVisible = TRUE]
          s2 == [s1 EXCEPT !.outsideClickHandlerBound = NewHandler(s1),
                           !.listenerTimers = @ + 1]
      IN  IF phoneNumber # <<>>
            THEN showNotification(
                   [s2 EXCEPT !.iframeOnload = <<"call", phoneNumber>>,
                              !.callTimers = Append(@, phoneNumber)],
                   <<"Calling", phoneNumber>>, "success")
            ELSE s2

showWidget_Unguarded(s, phoneNumber) ==
  LET position == calculateWidgetPosition(s.viewport, ButtonOf(s))
      s1 == [s EXCEPT
               !.widgetStyle =
                  [ApplyPosition(@, position) EXCEPT !.display = "block"],
               !.isWidgetVisible = TRUE]
      s2 == IF s1.outsideClickHandlerBound = 0
              THEN [s1 EXCEPT !.outsideClickHandlerBound = NewHandler(s1),
                              !.listenerTimers = @ + 1]
              ELSE s1
  IN  IF phoneNumber # <<>>
        THEN showNotification(
               [s2 EXCEPT !.iframeOnload = <<"call", phoneNumber>>,
                          !.callTimers = Append(@, phoneNumber)],
               <<"Calling", phoneNumber>>, "success")
        ELSE s2

showWidget(s, phoneNumber) ==
  IF s.widget = 0
    THEN s
    ELSE
      LET position == calculateWidgetPosition(s.viewport, ButtonOf(s))
          s1 == [s EXCEPT
                   !.widgetStyle =
                      [ApplyPosition(@, position) EXCEPT !.display = "block"],
                   !.isWidgetVisible = TRUE]
          s2 == IF s1.outsideClickHandlerBound = 0
                  THEN [s1 EXCEPT !.outsideClickHandlerBound = NewHandler(s1),
                                  !.listenerTimers = @ + 1]
                  ELSE s1
      IN  IF phoneNumber # <<>>
            THEN showNotification(
                   [s2 EXCEPT !.iframeOnload = <<"call", phoneNumber>>,
                              !.callTimers = Append(@, phoneNumber)],
                   <<"Calling", phoneNumber>>, "success")
            ELSE s2

hideWidget_KeepFlag(s) ==
  LET s1 == IF s.widget # 0
              THEN [s EXCEPT !.widgetStyle = [@ EXCEPT !.display = "none"]]
              ELSE s
  IN  IF s1.outsideClickHandlerBound # 0
        THEN [s1 EXCEPT
                !.outsideListeners = @ \ {s1.outsideClickHandlerBound},
                !.outsideClickHandlerBound = 0]
        ELSE s1

hideWidget(s) ==
  LET s1 == IF s.widget # 0
              THEN [s EXCEPT !.widgetStyle = [@ EXCEPT !.display = "none"],
                             !.isWidgetVisible = FALSE]
              ELSE s
  IN  IF s1.outsideClickHandlerBound # 0
        THEN [s1 EXCEPT
                !.outsideListeners = @ \ {s1.outsideClickHandlerBound},
                !.outsideClickHandlerBound = 0]
        ELSE s1

toggleWidget_AlwaysShow(s) ==
  IF s.widget # 0 THEN showWidget(s, <<>>) ELSE s

toggleWidget(s) ==
  IF s.widget # 0
    THEN IF s.isWidgetVisible THEN hideWidget(s) ELSE showWidget(s, <<>>)
    ELSE s

Call(number, timestamp) ==
  [number |-> number, timestamp |-> timestamp, direction |-> "outbound"]

addToCallHistory_LateCap(s, phoneNumber) ==
  LET unshifted == <<Call(phoneNumber, s.clock + 1)>> \o s.callHistory
      h == IF Len(unshifted) > HistoryCap + 1
             THEN SubSeq(unshifted, 1, HistoryCap) ELSE unshifted
  IN  [s EXCEPT !.clock = @ + 1, !.callHistory = h,
                !.localCallHistory = <<h>>]

addToCallHistory_Push(s, phoneNumber) ==
  LET pushed == Append(s.callHistory, Call(phoneNumber, s.clock + 1))
      h == IF Len(pushed) > HistoryCap
             THEN SubSeq(pushed, 1, HistoryCap) ELSE pushed
  IN  [s EXCEPT !.clock = @ + 1, !.callHistory = h,
                !.localCallHistory = <<h>>]

addToCallHistory_SaveFirst(s, phoneNumber) ==
  LET unshifted == <<Call(phoneNumber, s.clock + 1)>> \o s.callHistory
      h == IF Len(unshifted) > HistoryCap
             THEN SubSeq(unshifted, 1, HistoryCap) ELSE unshifted
  IN  [s EXCEPT !.clock = @ + 1, !.callHistory = h,
                !.localCallHistory = <<unshifted>>]

\* The timestamp is the ordinal of the Date reading: later calls carry later
\* timestamps.
addToCallHistory(s, phoneNumber) ==
  LET unshifted == <<Call(phoneNumber, s.clock + 1)>> \o s.callHistory
      h == IF Len(unshifted) > HistoryCap
             THEN SubSeq(unshifted, 1, HistoryCap) ELSE unshifted
  IN  [s EXCEPT !.clock = @ + 1, !.callHistory = h,
                !.localCallHistory = <<h>>]

clearCallHistory(s) ==
  [s EXCEPT !.callHistory = <<>>, !.localCallHistory = << <<>> >>]

initiateCall(s, phoneNumber) ==
  IF phoneNumber = <<>>
    THEN [s EXCEPT !.callsInitiated = @ + 1]
    ELSE
      LET cleanNumber == cleanPhoneNumber(phoneNumber)
          s0 == [s EXCEPT !.callsInitiated = @ + 1]
      IN  IF ~isValidPhoneNumber(cleanNumber)
            THEN showNotification(s0, <<"Invalid phone number format">>, "error")
            ELSE showWidget(addToCallHistory(s0, cleanNumber), cleanNumber)

----------------------------------------------------------------------------
(* Settings, the floating button and the life cycle (src/content.js) *)

SettingKeys == {"autoDetect", "showFloatingButton", "highlightNumbers"}

DefaultSettings == [k \in SettingKeys |-> TRUE]

\* Objects updateSettings is handed: the empty one, every single key with
\* either value, and two with several keys.
SettingsObjects ==
  {[k \in {} |-> TRUE]}
    \cup UNION {[{k} -> BOOLEAN] : k \in SettingKeys}
    \cup {[k \in {"autoDetect", "showFloatingButton"} |-> k = "showFloatingButton"],
          [k \in SettingKeys |-> FALSE]}

\* {...a, ...b}
Merge(a, b) ==
  [k \in (DOMAIN a) \cup (DOMAIN b) |-> IF k \in DOMAIN b THEN b[k] ELSE a[k]]

\* obj[k] as a condition: an absent key reads undefined, which is falsy
Truthy(obj, k) == k \in DOMAIN obj /\ obj[k]

loadSettings(s) ==
  IF s.syncOk /\ s.syncSettings # <<>>
    THEN [s EXCEPT !.settings = Merge(@, s.syncSettings[1])]
    ELSE s

saveSettings(s) ==
  IF s.syncOk THEN [s EXCEPT !.syncSettings = <<s.settings>>] ELSE s

createFloatingButton(s) ==
  IF ~Truthy(s.settings, "showFloatingButton") \/ s.floatingButton
    THEN s
    ELSE [s EXCEPT !.floatingButton = TRUE, !.domButton = TRUE]

removeFloatingButton(s) ==
  IF s.floatingButton
    THEN [s EXCEPT !.floatingButton = FALSE, !.domButton = FALSE]
    ELSE s

scheduleHighlighting(s) ==
  [s EXCEPT !.idleHighlights = Min(@ + 1, MaxIdle)]

removeHighlights(s) ==
  [s EXCEPT !.highlights = {}, !.processedElements = {},
            !.notifications =
               [i \in DOMAIN @ |-> [@[i] EXCEPT !.highlighted = FALSE]]]

toggleExtension(s) ==
  LET s1 == [s EXCEPT !.isEnabled = ~@]
  IN  IF s1.isEnabled
        THEN scheduleHighlighting(createFloatingButton(s1))
        ELSE removeHighlights(hideWidget(removeFloatingButton(s1)))

updateSettings_Replace(s, newSettings) ==
  saveSettings([s EXCEPT !.settings = newSettings])

updateSettings_ToggleButton(s, newSettings) ==
  LET s1 == saveSettings([s EXCEPT !.settings = Merge(@, newSettings)])
  IN  IF "showFloatingButton" \in DOMAIN newSettings
        THEN IF s1.floatingButton
               THEN removeFloatingButton(s1)
               ELSE createFloatingButton(s1)
        ELSE s1

updateSettings(s, newSettings) ==
  LET s1 == saveSettings([s EXCEPT !.settings = Merge(@, newSettings)])
      s2 == IF "showFloatingButton" \in DOMAIN newSettings
              THEN IF newSettings.showFloatingButton /\ ~s1.floatingButton
                     THEN createFloatingButton(s1)
                     ELSE IF ~newSettings.showFloatingButton /\ s1.floatingButton
                            THEN removeFloatingButton(s1)
                            ELSE s1
              ELSE s1
  IN  IF "highlightNumbers" \in DOMAIN newSettings
        THEN IF newSettings.highlightNumbers
               THEN scheduleHighlighting(s2)
               ELSE removeHighlights(s2)
        ELSE s2

EmptyStyle == [display |-> ""]

\* fails: building the container throws, which the method catches and logs
initializeWidget(s, fails) ==
  IF fails
    THEN s
    ELSE LET position == calculateWidgetPosition(s.viewport, ButtonOf(s))
         IN  [s EXCEPT
                !.widgetStyle =
                   [ApplyPosition(EmptyStyle, position) EXCEPT !.display = "none"],
                !.iframeOnload = <<"autologin">>,
                !.domContainers = @ \cup {1},
                !.widget = 1]

destroy(s) ==
  LET s1 == [s EXCEPT !.mutationObserver = FALSE, !.docClick = FALSE,
                      !.docKeydown = FALSE]
      s2 == removeHighlights(hideWidget(s1))
  IN  [s2 EXCEPT !.domButton = IF s2.floatingButton THEN FALSE ELSE @,
                 !.floatingButton = FALSE]

KeyEvents ==
  {[ctrlKey |-> TRUE, shiftKey |-> TRUE, key |-> "P"],
   [ctrlKey |-> FALSE, shiftKey |-> FALSE, key |-> "Escape"],
   [ctrlKey |-> TRUE, shiftKey |-> TRUE, key |-> "Escape"],
   [ctrlKey |-> FALSE, shiftKey |-> TRUE, key |-> "P"]}

handleKeyboard(s, e) ==
  LET s1 == IF e.ctrlKey /\ e.shiftKey /\ e.key = "P"
              THEN showWidget([s EXCEPT !.defaultPrevented = TRUE], <<>>)
              ELSE s
  IN  IF e.key = "Escape" /\ s1.isWidgetVisible THEN hideWidget(s1) ELSE s1

----------------------------------------------------------------------------
(* The page: a fixed document of a few elements, each with at most one text *)
(* node.  Fewer than ten text nodes, so a highlight pass is one chunk.      *)

NumA == <<"9", "8", "7", "6", "5", "4", "3", "2", "1", "0">>
NumAFormatted == <<"9", "8", "7", "6", "5", "-", "4", "3", "2", "1", "0", " ">>
NumB == <<"+", "9", "1", " ", "6", "1", "2", "3", "4", "5", "6", "7", "8", "9">>
NumShort == <<"1", "2", "3", "4", "5">>

NoHref == <<>>
Href(scheme, rest) == <<scheme, rest>>

Element(tag, href, text) == [tag |-> tag, href |-> href, text |-> text]

PageElements ==
  [e \in {"a1", "a2", "a3", "p1", "d1"} |->
     CASE e = "a1" -> Element("A", Href("tel:", NumAFormatted), NumA)
       [] e = "a2" -> Element("A", Href("tel:", NumShort), <<"x">>)
       [] e = "a3" -> Element("A", Href("TEL:", NumA), <<"x">>)
       [] e = "p1" -> Element("P", NoHref, NumB)
       [] e = "d1" -> Element("DIV", NoHref, <<>>)]

Whitespace == {" "}

RECURSIVE TrimLeft(_)
TrimLeft(t) ==
  IF t # <<>> /\ Head(t) \in Whitespace THEN TrimLeft(Tail(t)) ELSE t

RECURSIVE TrimRight(_)
TrimRight(t) ==
  IF t # <<>> /\ t[Len(t)] \in Whitespace
    THEN TrimRight(SubSeq(t, 1, Len(t) - 1)) ELSE t

\* String.prototype.trim
Trim(t) == TrimRight(TrimLeft(t))

\* this.phoneRegex = /(?:\+91[\s\-]?)?[6-9]\d{9}/g : the length of the match
\* that starts at position i, 0 when there is none
PhoneCoreAt(t, j) ==
  /\ j >= 1
  /\ j + 9 <= Len(t)
  /\ t[j] \in {"6", "7", "8", "9"}
  /\ \A k \in 1..9 : t[j + k] \in Digits

PhoneMatchLenAt(t, i) ==
  LET prefix == i + 2 <= Len(t) /\ SubSeq(t, i, i + 2) = <<"+", "9", "1">>
  IN  IF prefix /\ i + 3 <= Len(t) /\ t[i + 3] \in Whitespace \cup {"-"}
           /\ PhoneCoreAt(t, i + 4)
        THEN 14
        ELSE IF prefix /\ PhoneCoreAt(t, i + 3)
               THEN 13
               ELSE IF PhoneCoreAt(t, i) THEN 10 ELSE 0

\* text.match(this.phoneRegex): the matches from position i on, left to right
RECURSIVE PhoneMatches(_, _)
PhoneMatches(t, i) ==
  IF i > Len(t)
    THEN <<>>
    ELSE LET n == PhoneMatchLenAt(t, i)
         IN  IF n > 0
               THEN <<SubSeq(t, i, i + n - 1)>> \o PhoneMatches(t, i + n)
               ELSE PhoneMatches(t, i + 1)

\* The text of a toast
ToastText(message) ==
  IF message[1] = "Calling"
    THEN <<"C", " ">> \o message[2] \o <<".", ".", ".">>
    ELSE <<"I">>

ExcludedTags == {"SCRIPT", "STYLE", "NOSCRIPT", "IFRAME", "OBJECT"}

\* One pass of highlightPhoneNumbers over the page elements and the toasts;
\* the text nodes inside a highlight span or a processed parent are rejected.
highlightPhoneNumbers(s) ==
  IF ~Truthy(s.settings, "highlightNumbers")
    THEN s
    ELSE
      LET hit == {e \in DOMAIN PageElements :
                    /\ e \notin s.processedElements
                    /\ PageElements[e].tag \notin ExcludedTags
                    /\ PageElements[e].text # <<>>
                    /\ Len(PageElements[e].text) <= 200
                    /\ PhoneMatches(PageElements[e].text, 1) # <<>>}
      IN  [s EXCEPT
             !.highlights = @ \cup hit,
             !.processedElements = @ \cup hit,
             !.notifications =
                [i \in DOMAIN @ |->
                   IF PhoneMatches(ToastText(@[i].message), 1) # <<>>
                     THEN [@[i] EXCEPT !.highlighted = TRUE]
                     ELSE @[i]]]

----------------------------------------------------------------------------
(* Click dispatch: the capture listener of document, the listeners on the   *)
(* path from the target, then the bubble listeners of document.             *)

Target(kind, id, idx, text) ==
  [kind |-> kind, id |-> id, idx |-> idx, text |-> text]

\* What can be clicked in state s.
Targets(s) ==
  {Target("element", e, 0, <<>>) : e \in DOMAIN PageElements}
    \cup {Target("span", e, 0, PhoneMatches(PageElements[e].text, 1)[1]) :
            e \in s.highlights}
    \cup {Target("toast", "", i, <<>>) : i \in DOMAIN s.notifications}
    \cup {Target("toastSpan", "", i,
                 PhoneMatches(ToastText(s.notifications[i].message), 1)[1]) :
            i \in {j \in DOMAIN s.notifications : s.notifications[j].highlighted}}
    \cup (IF s.domButton THEN {Target("button", "", 0, <<>>)} ELSE {})
    \cup (IF s.widget \in s.domContainers /\ s.widgetStyle.display = "block"
            THEN {Target("widget", "", 0, <<>>)} ELSE {})

IsHighlightSpan(t) == t.kind \in {"span", "toastSpan"}

TagName(t) ==
  CASE t.kind = "element" -> PageElements[t.id].tag
    [] IsHighlightSpan(t) -> "SPAN"
    [] t.kind = "button" -> "BUTTON"
    [] OTHER -> "DIV"

HrefOf(t) == IF t.kind = "element" THEN PageElements[t.id].href ELSE NoHref

\* target.textContent
TextContent(s, t) ==
  CASE t.kind = "element" -> PageElements[t.id].text
    [] IsHighlightSpan(t) -> t.text
    [] t.kind = "toast" -> ToastText(s.notifications[t.idx].message)
    [] t.kind = "button" -> <<" ">>
    [] OTHER -> <<>>

\* The anchor on the path from the target, "" when there is none.
LinkOnPath(t) ==
  IF t.kind \in {"element", "span"} /\ PageElements[t.id].tag = "A"
    THEN t.id ELSE ""

\* target.href starts with 'tel:' : the resolved URL has a lower-case scheme
ResolvesToTel(href) == href # NoHref /\ href[1] \in {"tel:", "TEL:"}

\* link.getAttribute('href').replace(/^tel:/i, '').trim()
TelNumber(href) == Trim(href[2])

\* a[href^="tel:"] compares the attribute value as written
SelectedAsTel(href) == href # NoHref /\ href[1] = "tel:"

Handled(s, stopped) == [state |-> s, stopped |-> stopped]

Intercept(s) == [s EXCEPT !.defaultPrevented = TRUE]

handleClick_NoStop(s, t) ==
  IF TagName(t) = "A" /\ ResolvesToTel(HrefOf(t))
    THEN Handled(IF isValidPhoneNumber(TelNumber(HrefOf(t)))
                   THEN initiateCall(Intercept(s), TelNumber(HrefOf(t)))
                   ELSE Intercept(s), FALSE)
    ELSE Handled(s, FALSE)

handleClick(s, t) ==
  IF t.kind = "widget"
    THEN Handled(s, FALSE)
    ELSE IF TagName(t) = "A" /\ ResolvesToTel(HrefOf(t))
      THEN Handled(IF isValidPhoneNumber(TelNumber(HrefOf(t)))
                     THEN initiateCall(Intercept(s), TelNumber(HrefOf(t)))
                     ELSE Intercept(s), TRUE)
      ELSE IF IsHighlightSpan(t)
        THEN Handled(IF isValidPhoneNumber(Trim(t.text))
                       THEN initiateCall(Intercept(s), Trim(t.text))
                       ELSE Intercept(s), TRUE)
        ELSE IF ~Truthy(s.settings, "autoDetect") \/ TextContent(s, t) = <<>>
          THEN Handled(s, FALSE)
          ELSE LET text == Trim(TextContent(s, t))
                   matches == PhoneMatches(text, 1)
               IN  IF Len(text) <= 50 /\ Len(matches) = 1
                        /\ isValidPhoneNumber(matches[1])
                     THEN Handled(initiateCall(Intercept(s), matches[1]), TRUE)
                     ELSE Handled(s, FALSE)

\* the click listener interceptAllTelLinks puts on a tel link
linkListener(s, link) ==
  LET phoneNumber == TelNumber(PageElements[link].href)
  IN  IF isValidPhoneNumber(phoneNumber)
        THEN initiateCall(Intercept(s), phoneNumber)
        ELSE showNotification(Intercept(s), <<"Invalid phone number">>, "error")

\* processedLinks: the links that carry data-softphone-processed and the
\* listener; processedElements is the WeakSet the highlighter shares.
interceptAllTelLinks(s) ==
  LET telLinks == {e \in DOMAIN PageElements :
                     /\ PageElements[e].tag = "A"
                     /\ SelectedAsTel(PageElements[e].href)
                     /\ e \notin s.processedLinks}
      fresh == telLinks \ s.processedElements
  IN  [s EXCEPT !.processedLinks = @ \cup fresh,
                !.processedElements = @ \cup fresh]

handleOutsideClick(s, t) ==
  IF s.widget = 0 \/ ~s.isWidgetVisible
    THEN s
    ELSE IF t.kind # "widget" /\ ~(s.floatingButton /\ t.kind = "button")
           THEN hideWidget(s)
           ELSE s

Click(s, t) ==
  LET c == IF s.docClick THEN handleClick(s, t) ELSE Handled(s, FALSE)
      l == IF ~c.stopped /\ LinkOnPath(t) \in c.state.processedLinks
             THEN Handled(linkListener(c.state, LinkOnPath(t)), TRUE)
             ELSE c
      b == IF ~l.stopped /\ t.kind = "button"
             THEN Handled(toggleWidget(l.state), FALSE)
             ELSE l
  IN  IF ~b.stopped /\ b.state.outsideListeners # {}
        THEN handleOutsideClick(b.state, t)
        ELSE b.state

setupEventListeners(s) ==
  [interceptAllTelLinks([s EXCEPT !.docClick = TRUE, !.docKeydown = TRUE])
     EXCEPT !.mutationObserver = TRUE]

\* init(), from the await of loadSettings on; isEnabled is true here
init(s, fails) ==
  IF s.isEnabled
    THEN scheduleHighlighting(
           initializeWidget(
             setupEventListeners(createFloatingButton(loadSettings(s))), fails))
    ELSE loadSettings(s)

----------------------------------------------------------------------------
(* Initial states: the manager as its constructor leaves it, init() waiting *)
(* for loadSettings.                                                        *)

\* The button where the style sheet puts it: 50 by 50, 30 from the right and
\* the bottom edge.
buttonSize == 50
buttonInset == 30

DefaultButtonRect(vp) ==
  [left |-> vp[1] - buttonInset - buttonSize, right |-> vp[1] - buttonInset,
   top |-> vp[2] - buttonInset - buttonSize, bottom |-> vp[2] - buttonInset]

Desktop == <<1280, 720>>

Constructed(vp, stored, ok, clock0) ==
  [isEnabled |-> TRUE, callHistory |-> <<>>, widget |-> 0,
   isWidgetVisible |-> FALSE, settings |-> DefaultSettings,
   floatingButton |-> FALSE, outsideClickHandlerBound |-> 0,
   mutationObserver |-> FALSE,
   domContainers |-> {}, domButton |-> FALSE, widgetStyle |-> EmptyStyle,
   iframeOnload |-> <<>>, notifications |-> <<>>, processedLinks |-> {},
   processedElements |-> {}, highlights |-> {},
   docClick |-> FALSE, docKeydown |-> FALSE, outsideListeners |-> {},
   listenerTimers |-> 0, callTimers |-> <<>>, idleHighlights |-> 0,
   syncSettings |-> stored, localCallHistory |-> <<>>,
   localCreds |-> <<>>, changeQueue |-> [tab \in Tabs |-> <<>>],
   tabIframes |-> {},
   viewport |-> vp, buttonRect |-> DefaultButtonRect(vp), syncOk |-> ok,
   clock |-> clock0,
   posted |-> <<>>, defaultPrevented |-> FALSE, callsInitiated |-> 0]

InitManager(s0, v, p, args) ==
  /\ isEnabled = s0.isEnabled
  /\ callHistory = s0.callHistory
  /\ widget = s0.widget
  /\ isWidgetVisible = s0.isWidgetVisible
  /\ settings = s0.settings
  /\ floatingButton = s0.floatingButton
  /\ outsideClickHandlerBound = s0.outsideClickHandlerBound
  /\ mutationObserver = s0.mutationObserver
  /\ domContainers = s0.domContainers
  /\ domButton = s0.domButton
  /\ widgetStyle = s0.widgetStyle
  /\ iframeOnload = s0.iframeOnload
  /\ notifications = s0.notifications
  /\ processedLinks = s0.processedLinks
  /\ processedElements = s0.processedElements
  /\ highlights = s0.highlights
  /\ docClick = s0.docClick
  /\ docKeydown = s0.docKeydown
  /\ outsideListeners = s0.outsideListeners
  /\ listenerTimers = s0.listenerTimers
  /\ callTimers = s0.callTimers
  /\ idleHighlights = s0.idleHighlights
  /\ syncSettings = s0.syncSettings
  /\ localCallHistory = s0.localCallHistory
  /\ localCreds = s0.localCreds
  /\ changeQueue = s0.changeQueue
  /\ tabIframes = s0.tabIframes
  /\ viewport = s0.viewport
  /\ buttonRect = s0.buttonRect
  /\ syncOk = s0.syncOk
  /\ clock = s0.clock
  /\ posted = s0.posted
  /\ defaultPrevented = s0.defaultPrevented
  /\ callsInitiated = s0.callsInitiated
  /\ pc = p
  /\ variant = v
  /\ lastOp = "constructor"
  /\ lastArg = <<>>
  /\ pre = Observed(s0)
  /\ epoch = s0.clock
  /\ prevOp = "other"
  /\ prevArg = <<>>
  /\ prevVisible = FALSE
  /\ callArgs = args
  /\ callResult = <<>>

InitState(s0, v, p, args) ==
  /\ InitManager(s0, v, p, args)
  /\ closure = <<>>
  /\ callPosts = <<>>
  /\ dom = <<>>

----------------------------------------------------------------------------
(* Pure functions under check *)

ShortStrings(alphabet) ==
  {<<>>} \cup {<<c>> : c \in alphabet}
         \cup {<<c, d>> : c \in alphabet, d \in alphabet}

\* Candidate strings: a short prefix, a run of digits, possibly a separator
\* and three more digits, a one-character suffix.
ValidationInputs ==
  {pre0 \o Rep("9", k) \o mid \o suf :
     pre0 \in ShortStrings({"+", "-", " "}),
     k \in 0..MaxDigits,
     mid \in {<<>>, <<"-", "1", "2", "3">>, <<"+", "1", "2", "3">>},
     suf \in {<<>>, <<")">>, <<"5">>, <<"+">>}}

InitValidate ==
  \E input \in ValidationInputs :
    InitState(Constructed(Desktop, <<>>, TRUE, 0), "content", "fn", input)

Validate ==
  /\ pc = "fn"
  /\ callResult = <<>>
  /\ callResult' = <<isValidPhoneNumber(callArgs)>>
  /\ lastOp' = "isValidPhoneNumber"
  /\ UNCHANGED <<mgrVars, pageVars, timerVars, storeVars, tabVars, envVars,
                 auxVars, pc, epoch,
                 variant, lastArg, pre, prevOp, prevArg, prevVisible, posted,
                 defaultPrevented, callsInitiated, callArgs>>

SpecValidate == InitValidate /\ [][Validate]_vars

\* Viewport extents around the sizes at which the widget stops fitting, and
\* button rectangles over a grid of corners.
Extents == {30, 40, 41, 100, 419, 420, 421, 600, 620, 621, 1280}
Corners == {-10, 0, 25, 300, 410, 1200}

PositionInputs ==
  {<<vp, NoButton>> : vp \in Extents \X Extents}
    \cup {<<<<w, h>>, HasButton([left |-> x, right |-> x + buttonSize,
                                top |-> y, bottom |-> y + buttonSize])>> :
            w \in Extents, h \in {100, 620, 720}, x \in Corners, y \in {0, 300, 640}}

InitPosition ==
  \E input \in PositionInputs :
    InitState(Constructed(Desktop, <<>>, TRUE, 0), "content", "fn", input)

Position ==
  /\ pc = "fn"
  /\ callResult = <<>>
  /\ callResult' = <<calculateWidgetPosition(callArgs[1], callArgs[2])>>
  /\ lastOp' = "calculateWidgetPosition"
  /\ UNCHANGED <<mgrVars, pageVars, timerVars, storeVars, tabVars, envVars,
                 auxVars, pc, epoch,
                 variant, lastArg, pre, prevOp, prevArg, prevVisible, posted,
                 defaultPrevented, callsInitiated, callArgs>>

SpecPosition == InitPosition /\ [][Position]_vars

----------------------------------------------------------------------------
(* Operations of the manager in src/content.js *)

Running == variant = "content" /\ pc \in {"ready", "destroyed"}

DoInit ==
  /\ variant = "content"
  /\ pc = "constructed"
  /\ \E fails \in BOOLEAN : Step("init", fails, init(Cur, fails))
  /\ pc' = "ready"

\* Raw strings a call may be started with.
CallInputs == {NumA, NumAFormatted, NumShort, <<>>}

InitiateCall ==
  /\ Running
  /\ \E n \in CallInputs : Step("initiateCall", n, initiateCall(Cur, n))
  /\ pc' = pc

AddToCallHistory ==
  /\ Running
  /\ Step("addToCallHistory", NumA, addToCallHistory(Cur, NumA))
  /\ pc' = pc

ClearCallHistory ==
  /\ Running
  /\ Step("clearCallHistory", <<>>, clearCallHistory(Cur))
  /\ pc' = pc

ShowWidget ==
  /\ Running
  /\ \E n \in {<<>>, NumA} : Step("showWidget", n, showWidget(Cur, n))
  /\ pc' = pc

HideWidget ==
  /\ Running
  /\ Step("hideWidget", <<>>, hideWidget(Cur))
  /\ pc' = pc

ToggleWidget ==
  /\ Running
  /\ Step("toggleWidget", <<>>, toggleWidget(Cur))
  /\ pc' = pc

ToggleExtension ==
  /\ Running
  /\ Step("toggleExtension", <<>>, toggleExtension(Cur))
  /\ pc' = pc

UpdateSettings ==
  /\ Running
  /\ \E u \in SettingsObjects : Step("updateSettings", u, updateSettings(Cur, u))
  /\ pc' = pc

Destroy ==
  /\ variant = "content"
  /\ pc = "ready"
  /\ Step("destroy", <<>>, destroy(Cur))
  /\ pc' = "destroyed"

KeyDown ==
  /\ Running
  /\ docKeydown
  /\ \E e \in KeyEvents : Step("keydown", e, handleKeyboard(Cur, e))
  /\ pc' = pc

ClickOn ==
  /\ variant = "content"
  /\ \E t \in Targets(Cur) : Step("click", t, Click(Cur, t))
  /\ pc' = pc

\* setTimeout(() => document.addEventListener('click', this.outsideClickHandlerBound), 0)
ListenerTimerFires ==
  /\ listenerTimers > 0
  /\ Step("listenerTimer", <<>>,
          [Cur EXCEPT !.listenerTimers = @ - 1,
                      !.outsideListeners =
                         IF outsideClickHandlerBound # 0
                           THEN @ \cup {outsideClickHandlerBound} ELSE @])
  /\ pc' = pc

\* the 1000 ms re-send of showWidget
CallTimerFires ==
  /\ callTimers # <<>>
  /\ Step("callTimer", Head(callTimers),
          [Cur EXCEPT !.callTimers = Tail(@),
                      !.posted = <<CallMessage(Head(callTimers))>>])
  /\ pc' = pc

\* setTimeout(() => notification.remove(), 3000)
ToastExpires ==
  /\ notifications # <<>>
  /\ Step("toastTimer", <<>>, [Cur EXCEPT !.notifications = Tail(@)])
  /\ pc' = pc

\* the idle callback of scheduleHighlighting
IdleHighlight ==
  /\ idleHighlights > 0
  /\ Step("highlightPhoneNumbers", <<>>,
          highlightPhoneNumbers([Cur EXCEPT !.idleHighlights = @ - 1]))
  /\ pc' = pc

\* the sync storage starts or stops failing
SyncFlips ==
  /\ Step("syncFlips", <<>>, [Cur EXCEPT !.syncOk = ~@])
  /\ pc' = pc

----------------------------------------------------------------------------
(* The call history *)

\* k earlier calls of addToCallHistory
RECURSIVE Replay(_, _)
Replay(s, k) ==
  IF k = 0
    THEN s
    ELSE LET t == addToCallHistory(s, NumA)
         IN  IF t.callHistory # <<>> THEN Replay(t, k - 1) ELSE t

\* The manager after construction, init() and k recorded calls, for every k
\* up to the cap.
InitHistory ==
  \E k \in {0, HistoryCap - 1, HistoryCap}, fails \in BOOLEAN :
    InitState(Replay(init(Constructed(Desktop, <<>>, TRUE, 0), fails), k),
              "content", "ready", <<>>)

NextHistory ==
  \/ InitiateCall
  \/ AddToCallHistory
  \/ ClearCallHistory
  \/ ListenerTimerFires
  \/ CallTimerFires
  \/ ToastExpires

SpecHistory == InitHistory /\ [][NextHistory]_vars

----------------------------------------------------------------------------
(* The settings and the floating button *)

StoredSettings ==
  {<<>>, <<[k \in {"showFloatingButton", "highlightNumbers"} |-> FALSE]>>}

InitSettings ==
  \E stored \in StoredSettings, ok \in BOOLEAN :
    InitState(Constructed(Desktop, stored, ok, 0), "content", "constructed", <<>>)

NextSettings ==
  \/ DoInit
  \/ UpdateSettings
  \/ ToggleExtension
  \/ SyncFlips
  \/ Destroy

SpecSettings == InitSettings /\ [][NextSettings]_vars

----------------------------------------------------------------------------
(* The widget, the keyboard and the clicks *)

InitWidget ==
  InitState(Constructed(Desktop, <<>>, TRUE, 0), "content", "constructed", <<>>)

NextWidget ==
  \/ DoInit
  \/ ShowWidget
  \/ HideWidget
  \/ ToggleWidget
  \/ InitiateCall
  \/ KeyDown
  \/ ClickOn
  \/ ToggleExtension
  \/ Destroy
  \/ ListenerTimerFires
  \/ CallTimerFires
  \/ ToastExpires

SpecWidget == InitWidget /\ [][NextWidget]_vars

----------------------------------------------------------------------------
(* Clicks on the page, with the highlighter running *)

NextClicks ==
  \/ DoInit
  \/ ClickOn
  \/ IdleHighlight
  \/ ToggleExtension
  \/ Destroy
  \/ ListenerTimerFires
  \/ CallTimerFires
  \/ ToastExpires

SpecClicks == InitWidget /\ [][NextClicks]_vars

----------------------------------------------------------------------------
(* The older manager of src/unnamed/part_000: the widget is built when it   *)
(* is opened and removed when it is closed.  Its loadSettings,              *)
(* createFloatingButton, setupEventListeners, scheduleHighlighting,         *)
(* validation, history, position and toast code is the code of              *)
(* src/content.js, so the operators above stand for it.                     *)

isWidgetOpen_part000(s) == s.widget # 0 /\ s.widget \in s.domContainers

closeWidget_part000(s) ==
  IF s.widget # 0
    THEN [s EXCEPT !.domContainers = @ \ {s.widget}, !.widget = 0,
                   !.widgetStyle = EmptyStyle, !.iframeOnload = <<>>]
    ELSE s

\* fails: building the container throws, which the method catches
openWidget_part000(s, phoneNumber, fails) ==
  IF s.widget # 0
    THEN closeWidget_part000(s)
    ELSE IF fails
      THEN showNotification(s, <<"Failed to open softphone">>, "error")
      ELSE
        LET position == calculateWidgetPosition(s.viewport, ButtonOf(s))
            s1 == [s EXCEPT
                     !.widgetStyle = ApplyPosition(EmptyStyle, position),
                     !.iframeOnload =
                        IF phoneNumber # <<>>
                          THEN <<"call", phoneNumber>> ELSE <<"idle">>,
                     !.domContainers = @ \cup {1},
                     !.widget = 1]
        IN  IF phoneNumber # <<>>
              THEN showNotification(s1, <<"Calling", phoneNumber>>, "success")
              ELSE s1

initiateCall_part000(s, phoneNumber, fails) ==
  IF phoneNumber = <<>>
    THEN [s EXCEPT !.callsInitiated = @ + 1]
    ELSE
      LET cleanNumber == cleanPhoneNumber(phoneNumber)
          s0 == [s EXCEPT !.callsInitiated = @ + 1]
      IN  IF ~isValidPhoneNumber(cleanNumber)
            THEN showNotification(s0, <<"Invalid phone number format">>, "error")
            ELSE openWidget_part000(addToCallHistory(s0, cleanNumber),
                                    cleanNumber, fails)

handleKeyboard_part000(s, e, fails) ==
  LET s1 == IF e.ctrlKey /\ e.shiftKey /\ e.key = "P"
              THEN openWidget_part000([s EXCEPT !.defaultPrevented = TRUE],
                                      <<>>, fails)
              ELSE s
  IN  IF e.key = "Escape" /\ s1.widget # 0 THEN closeWidget_part000(s1) ELSE s1

\* the click listener of the floating button
buttonListener_part000(s, fails) ==
  IF isWidgetOpen_part000(s)
    THEN closeWidget_part000(s)
    ELSE openWidget_part000(s, <<>>, fails)

toggleExtension_part000(s) ==
  LET s1 == [s EXCEPT !.isEnabled = ~@]
  IN  IF s1.isEnabled
        THEN scheduleHighlighting(createFloatingButton(s1))
        ELSE removeHighlights(closeWidget_part000(removeFloatingButton(s1)))

init_part000(s) ==
  IF s.isEnabled
    THEN scheduleHighlighting(
           setupEventListeners(createFloatingButton(loadSettings(s))))
    ELSE loadSettings(s)

RunningOld == variant = "part_000" /\ pc = "ready"

OpenWidgetOld ==
  /\ RunningOld
  /\ \E n \in {<<>>, NumA}, fails \in BOOLEAN :
       Step("openWidget", n, openWidget_part000(Cur, n, fails))
  /\ pc' = pc

CloseWidgetOld ==
  /\ RunningOld
  /\ Step("closeWidget", <<>>, closeWidget_part000(Cur))
  /\ pc' = pc

InitiateCallOld ==
  /\ RunningOld
  /\ \E n \in CallInputs, fails \in BOOLEAN :
       Step("initiateCall", n, initiateCall_part000(Cur, n, fails))
  /\ pc' = pc

KeyDownOld ==
  /\ RunningOld
  /\ docKeydown
  /\ \E e \in KeyEvents, fails \in BOOLEAN :
       Step("keydown", e, handleKeyboard_part000(Cur, e, fails))
  /\ pc' = pc

ButtonClickOld ==
  /\ RunningOld
  /\ domButton
  /\ \E fails \in BOOLEAN :
       Step("buttonClick", <<>>, buttonListener_part000(Cur, fails))
  /\ pc' = pc

ToggleExtensionOld ==
  /\ RunningOld
  /\ Step("toggleExtension", <<>>, toggleExtension_part000(Cur))
  /\ pc' = pc

InitOld ==
  InitState(init_part000(Constructed(Desktop, <<>>, TRUE, 0)),
            "part_000", "ready", <<>>)

NextOld ==
  \/ OpenWidgetOld
  \/ CloseWidgetOld
  \/ InitiateCallOld
  \/ KeyDownOld
  \/ ButtonClickOld
  \/ ToggleExtensionOld
  \/ ToastExpires

SpecOld == InitOld /\ [][NextOld]_vars

----------------------------------------------------------------------------
(* The window message relay, the storage listener and the credential push   *)
(* at the end of src/content.js                                              *)

Url(scheme, host, path) == [scheme |-> scheme, host |-> host, path |-> path]

\* iframe.src of initializeWidget
WidgetUrl ==
  Url("https:", "founderscartin.s3.ap-south-1.amazonaws.com",
      "/app/ivrsolutions/webrtc/chrome-ext/index.html")

\* the page the script is injected into
PageUrl == Url("https:", "shop.example", "/contact.html")

\* A URL written out, as in a string literal of the source.
Serialize(url) == <<url.scheme, "//", url.host, url.path>>

\* MessageEvent.origin: the scheme, the host and the port of the sender's
\* URL, and never its path.
OriginOf(url) == <<url.scheme, "//", url.host>>

\* the string the listener compares event.origin with
TrustedOrigin == Serialize(WidgetUrl)

\* Values of the credentials blob: JSON values, of which the script looks at
\* the truthiness and at the loggedIn property only.
JsNull == [kind |-> "null", loggedIn |-> <<>>, token |-> ""]
JsEmptyString == [kind |-> "string", loggedIn |-> <<>>, token |-> ""]
CredsIn == [kind |-> "object", loggedIn |-> <<TRUE>>, token |-> "t1"]
CredsNoFlag == [kind |-> "object", loggedIn |-> <<>>, token |-> "t2"]
CredsOut == [kind |-> "object", loggedIn |-> <<FALSE>>, token |-> ""]

CredentialValues == {JsNull, JsEmptyString, CredsIn, CredsNoFlag, CredsOut}

\* !v
Falsy(v) == v.kind = "null" \/ (v.kind = "string" /\ v.token = "")

\* v?.loggedIn === b
LoggedInIs(v, b) == v.kind = "object" /\ v.loggedIn = <<b>>

MessageTypes ==
  {"SOFTPHONE_INCOMING_CALL", "SOFTPHONE_SAVE_CREDENTIALS",
   "SOFTPHONE_REQUEST_CREDENTIALS", "SOFTPHONE_LOGOUT_SYNC", "OTHER"}

MessageData(type, credentials) == [type |-> type, credentials |-> credentials]

\* A message event: source names the window that posted it.
MessageEvent(url, source, data) ==
  [origin |-> OriginOf(url), source |-> source, data |-> data]

\* The messages a window may post: every type, SAVE with every value.
MessageDatas ==
  {MessageData(type, JsNull) : type \in MessageTypes}
    \cup {MessageData("SOFTPHONE_SAVE_CREDENTIALS", c) : c \in CredentialValues}

MessageEvents ==
  {MessageEvent(WidgetUrl, "iframe", d) : d \in MessageDatas}
    \cup {MessageEvent(PageUrl, "page", d) : d \in MessageDatas}

Change(key, oldValue, newValue) ==
  [key |-> key, oldValue |-> oldValue, newValue |-> newValue]

\* chrome.storage.local.set({softphoneCredentials: value}): every tab is told
\* of a value that differs from the stored one.
storageSet(s, value) ==
  IF s.localCreds = <<value>>
    THEN s
    ELSE [s EXCEPT
            !.localCreds = <<value>>,
            !.changeQueue =
               [tab \in Tabs |->
                  Append(@[tab], Change("softphoneCredentials", s.localCreds,
                                        <<value>>))]]

isWidgetOpen(s) ==
  s.isWidgetVisible /\ s.widget # 0 /\ s.widgetStyle.display # "none"

\* the tab's document has the element #softphone-widget
IframeIn(s, tab) ==
  IF tab = 1 THEN s.domContainers # {} ELSE tab \in s.tabIframes

Post(s, message) == [s EXCEPT !.posted = Append(@, message)]

ResponseCredentials(credentials, to) ==
  [type |-> "SOFTPHONE_RESPONSE_CREDENTIALS", credentials |-> credentials,
   to |-> to]

ForceLogout(tab) == [type |-> "SOFTPHONE_FORCE_LOGOUT", to |-> tab]

\* The branches of the listener, for a message that passed the origin test.
relayMessage(s, event) ==
  LET data == event.data
      s1 == IF data.type = "SOFTPHONE_INCOMING_CALL"
              THEN showNotification(
                     IF ~isWidgetOpen(s) THEN showWidget(s, <<>>) ELSE s,
                     <<"Incoming", "Unknown">>, "info")
              ELSE s
      s2 == IF data.type = "SOFTPHONE_SAVE_CREDENTIALS"
              THEN storageSet(s1, data.credentials)
              ELSE s1
      s3 == IF data.type = "SOFTPHONE_REQUEST_CREDENTIALS"
              THEN Post(s2, ResponseCredentials(
                              IF s2.localCreds = <<>> \/ Falsy(s2.localCreds[1])
                                THEN JsNull ELSE s2.localCreds[1],
                              event.source))
              ELSE s2
  IN  IF data.type = "SOFTPHONE_LOGOUT_SYNC"
        THEN storageSet(s3, CredsOut)
        ELSE s3

windowMessage_AnyOrigin(s, event) == relayMessage(s, event)

\* window.addEventListener("message", ...)
windowMessage(s, event) ==
  IF event.origin # TrustedOrigin THEN s ELSE relayMessage(s, event)

\* chrome.storage.onChanged listener, as it runs in tab
onChanged(s, tab, change) ==
  IF /\ change.key = "softphoneCredentials"
     /\ change.newValue # <<>>
     /\ LoggedInIs(change.newValue[1], FALSE)
     /\ IframeIn(s, tab)
    THEN Post(s, ForceLogout(tab))
    ELSE s

pushCredsToIframe(s) ==
  IF ~IframeIn(s, 1)
    THEN s
    ELSE IF /\ s.localCreds # <<>>
            /\ ~Falsy(s.localCreds[1])
            /\ LoggedInIs(s.localCreds[1], TRUE)
           THEN Post(s, ResponseCredentials(s.localCreds[1], "iframe"))
           ELSE s

WindowMessage ==
  /\ variant = "content"
  /\ \E event \in MessageEvents :
       Step("message", event, windowMessage(Cur, event))
  /\ pc' = pc

OnChanged ==
  /\ variant = "content"
  /\ \E tab \in Tabs :
       /\ changeQueue[tab] # <<>>
       /\ Step("onChanged", [tab |-> tab, change |-> Head(changeQueue[tab])],
               onChanged([Cur EXCEPT !.changeQueue[tab] = Tail(@)], tab,
                         Head(changeQueue[tab])))
  /\ pc' = pc

PushCreds ==
  /\ variant = "content"
  /\ Step("pushCredsToIframe", <<>>, pushCredsToIframe(Cur))
  /\ pc' = pc

\* Another context of the extension writes the credentials.
StorageWrite ==
  /\ variant = "content"
  /\ \E c \in CredentialValues : Step("storageSet", c, storageSet(Cur, c))
  /\ pc' = pc

\* The script of another tab finishes initializeWidget.
TabOpensWidget ==
  /\ variant = "content"
  /\ \E tab \in Tabs \ {1} :
       /\ tab \notin tabIframes
       /\ Step("tabWidget", tab, [Cur EXCEPT !.tabIframes = @ \cup {tab}])
  /\ pc' = pc

NextRelay ==
  \/ DoInit
  \/ WindowMessage
  \/ OnChanged
  \/ PushCreds
  \/ StorageWrite
  \/ TabOpensWidget

SpecRelay == InitWidget /\ [][NextRelay]_vars

----------------------------------------------------------------------------
(* Properties *)

IsDigitString(t) == \A i \in DOMAIN t : t[i] \in Digits

\* C1: isValidPhoneNumber accepts every string whose stripped form (all
\* characters but digits and '+' removed) is 7 to 15 digits, optionally
\* preceded by one '+', and rejects every string whose stripped form has
\* fewer than 7 or more than 15 digits.
C1_AcceptsSevenToFifteenDigits ==
  (pc = "fn" /\ callResult # <<>>) =>
    LET stripped == cleanPhoneNumber(callArgs)
        body == IF stripped # <<>> /\ Head(stripped) = "+"
                  THEN Tail(stripped) ELSE stripped
        digits == Len(SelectSeq(stripped, LAMBDA c : c \in Digits))
    IN  /\ (IsDigitString(body) /\ Len(body) >= 7 /\ Len(body) <= 15)
             => callResult[1]
        /\ (digits < 7 \/ digits > 15) => ~callResult[1]

\* C2: the in-memory callHistory never holds more than 50 entries.
C2_HistoryAtMostCap == Len(callHistory) <= HistoryCap

C2_Witness ==
  /\ lastOp \in {"initiateCall", "addToCallHistory"}
  /\ Len(pre.callHistory) = HistoryCap
  /\ Len(callHistory) = HistoryCap
  /\ callHistory # pre.callHistory

Recorded(op, arg) ==
  \/ op = "addToCallHistory"
  \/ op = "initiateCall" /\ arg # <<>> /\ isValidPhoneNumber(arg)

\* C3: callHistory is newest first.  After a call is recorded for n the first
\* entry is the new outbound call for n, later than every other entry, and
\* the rest are the previous entries in their previous order, less the last
\* one when the list was full.
C3_NewestFirst ==
  /\ \A i \in DOMAIN callHistory : \A j \in DOMAIN callHistory :
       i < j => callHistory[i].timestamp > callHistory[j].timestamp
  /\ Recorded(lastOp, lastArg) =>
       LET old == pre.callHistory
       IN  /\ callHistory # <<>>
           /\ callHistory[1].number = cleanPhoneNumber(lastArg)
           /\ callHistory[1].direction = "outbound"
           /\ Tail(callHistory) =
                IF Len(old) >= HistoryCap
                  THEN SubSeq(old, 1, HistoryCap - 1) ELSE old

C3_Witness ==
  /\ lastOp = "addToCallHistory"
  /\ Len(pre.callHistory) = HistoryCap
  /\ callHistory[HistoryCap] = pre.callHistory[HistoryCap - 1]

\* C9: calculateWidgetPosition keeps the widget inside the viewport less a
\* margin of 20 on every side: left >= 20, top >= 20, left + W <= width - 20
\* and top + H <= height - 20, W and H being the returned width and height,
\* or 380 and 580 when none is returned.
C9_PositionWithinViewport ==
  (pc = "fn" /\ callResult # <<>>) =>
    LET position == callResult[1]
        vp == callArgs[1]
        W == IF "width" \in DOMAIN position
               THEN position.width ELSE Px(widgetWidth)
        H == IF "height" \in DOMAIN position
               THEN position.height ELSE Px(widgetHeight)
    IN  /\ position.left >= Px(margin)
        /\ position.top >= Px(margin)
        /\ position.left + W <= Px(vp[1] - margin)
        /\ position.top + H <= Px(vp[2] - margin)

\* C4: updateSettings merges: every key of newSettings takes the new value and
\* every other settings key keeps the value it had.
C4_UpdateMerges ==
  lastOp = "updateSettings" =>
    \A k \in SettingKeys :
      /\ k \in DOMAIN settings
      /\ settings[k] = IF k \in DOMAIN lastArg
                         THEN lastArg[k] ELSE pre.settings[k]

C4_Witness ==
  /\ lastOp = "updateSettings"
  /\ DOMAIN lastArg = {"autoDetect"}
  /\ ~lastArg.autoDetect
  /\ pre.settings.autoDetect
  /\ ~settings.showFloatingButton

\* C5: updateSettings(u) run twice in a row leaves the settings, the value
\* saved to sync storage and the presence of the floating button as the
\* first run left them.
C5_UpdateIdempotent ==
  (lastOp = "updateSettings" /\ prevOp = "updateSettings" /\ prevArg = lastArg)
    => /\ settings = pre.settings
       /\ syncSettings = pre.syncSettings
       /\ floatingButton = pre.floatingButton
       /\ domButton = pre.domButton

C5_Witness ==
  /\ lastOp = "updateSettings"
  /\ prevOp = "updateSettings"
  /\ prevArg = lastArg
  /\ "showFloatingButton" \in DOMAIN lastArg
  /\ lastArg.showFloatingButton
  /\ domButton
  /\ syncSettings = <<settings>>

\* C6: once the widget is initialized, showWidget on a visible widget leaves
\* it visible, hideWidget on a hidden widget leaves it hidden, toggleWidget
\* inverts the visibility, and two toggleWidget calls in a row restore the
\* visibility that held before the first.
C6_ShowHideToggle ==
  /\ (lastOp = "showWidget" /\ pre.widget # 0 /\ pre.isWidgetVisible)
       => (isWidgetVisible /\ widgetStyle.display = "block")
  /\ (lastOp = "hideWidget" /\ pre.widget # 0 /\ ~pre.isWidgetVisible)
       => (~isWidgetVisible /\ widgetStyle.display = pre.display)
  /\ (lastOp = "toggleWidget" /\ pre.widget # 0)
       => isWidgetVisible = ~pre.isWidgetVisible
  /\ (lastOp = "toggleWidget" /\ prevOp = "toggleWidget" /\ pre.widget # 0)
       => isWidgetVisible = prevVisible

C6_Witness ==
  /\ lastOp = "toggleWidget"
  /\ prevOp = "toggleWidget"
  /\ widget # 0
  /\ ~prevVisible
  /\ pre.isWidgetVisible
  /\ ~isWidgetVisible
  /\ widgetStyle.display = "none"

WidgetOps ==
  {"showWidget", "hideWidget", "toggleWidget", "initiateCall",
   "toggleExtension", "keydown", "click"}

\* C8: there is never more than one widget container in the page, and
\* showWidget, hideWidget, toggleWidget, initiateCall, toggleExtension and the
\* keyboard and click handlers neither add a container nor remove or replace
\* the one this.widget names.
C8_OneContainer ==
  /\ Cardinality(domContainers) <= 1
  /\ lastOp \in WidgetOps =>
       (domContainers = pre.domContainers /\ widget = pre.widget)

C8_Witness ==
  /\ lastOp = "initiateCall"
  /\ domContainers = {widget}
  /\ isWidgetVisible
  /\ ~pre.isWidgetVisible
  /\ pre.domContainers = {widget}

\* The click's target is an anchor whose href resolves to a tel: URL.
IsTelAnchor(t) ==
  t.kind = "element" /\ TagName(t) = "A" /\ ResolvesToTel(HrefOf(t))

\* The number the click carries.
ClickedNumber(t) ==
  IF IsHighlightSpan(t) THEN Trim(t.text) ELSE TelNumber(HrefOf(t))

\* The last step was a click on a tel: anchor or on a highlighted number.
TelClick ==
  lastOp = "click" /\ (IsTelAnchor(lastArg) \/ IsHighlightSpan(lastArg))

\* The click was intercepted: its default is prevented; a valid number went
\* through initiateCall once and left one new entry at the head of the
\* history, an invalid one went through it not at all.
Intercepted ==
  /\ defaultPrevented
  /\ IF isValidPhoneNumber(ClickedNumber(lastArg))
       THEN /\ callsInitiated = 1
            /\ callHistory # <<>>
            /\ Head(callHistory).number = cleanPhoneNumber(ClickedNumber(lastArg))
            /\ Tail(callHistory) = pre.callHistory
       ELSE /\ callsInitiated = 0
            /\ callHistory = pre.callHistory

\* C10 as stated: every click on a tel: anchor or a highlighted number is
\* intercepted, whatever the state of the manager.
C10_EveryClickIntercepted == TelClick => Intercepted

\* C10: while the capture listener of init() is on the document, every click
\* on a tel: anchor or a highlighted number has its default prevented, and a
\* valid number goes through initiateCall exactly once and adds exactly one
\* history entry.
C10_InterceptedWhileListening == (TelClick /\ docClick) => Intercepted

C10_Witness ==
  /\ TelClick
  /\ docClick
  /\ lastArg.id = "a1"
  /\ "a1" \in processedLinks
  /\ defaultPrevented
  /\ callsInitiated = 1
  /\ Len(callHistory) = Len(pre.callHistory) + 1

\* A widget is open in the older manager: this.widget names a container
\* that is in the page.
WidgetOpenOld == widget # 0 /\ domContainers = {widget}

\* C7: in src/unnamed/part_000, openWidget called while a widget is open,
\* directly or through initiateCall with a valid number, leaves a widget
\* open, and closeWidget called while none is open leaves none open.
C7_OpenCloseIdempotent ==
  /\ (lastOp = "openWidget" /\ pre.widget # 0) => WidgetOpenOld
  /\ (/\ lastOp = "initiateCall"
      /\ pre.widget # 0
      /\ isValidPhoneNumber(cleanPhoneNumber(lastArg))) => WidgetOpenOld
  /\ (lastOp = "closeWidget" /\ pre.widget = 0) =>
       (widget = 0 /\ domContainers = {})

\* The last step handled a message the widget iframe posted.
FromWidget ==
  lastOp = "message" /\ lastArg.source = "iframe"
    /\ lastArg.origin = OriginOf(WidgetUrl)

\* The last step left the storage, the widget, the toasts and the posted
\* messages as they were.
NoEffect ==
  /\ localCreds = pre.localCreds
  /\ isWidgetVisible = pre.isWidgetVisible
  /\ widgetStyle.display = pre.display
  /\ notifications = pre.notifications
  /\ posted = <<>>

\* C11: a message whose origin is not the origin of the widget's URL writes
\* nothing to storage, leaves the widget's visibility alone, creates no
\* notification and is answered by no message.
C11_OtherOriginsIgnored ==
  (lastOp = "message" /\ lastArg.origin # OriginOf(WidgetUrl)) => NoEffect

C11_Witness ==
  /\ lastOp = "message"
  /\ lastArg.origin = OriginOf(PageUrl)
  /\ lastArg.data = MessageData("SOFTPHONE_SAVE_CREDENTIALS", CredsIn)
  /\ pre.localCreds # <<CredsIn>>
  /\ NoEffect

\* The value under softphoneCredentials as a reader expects it: null when
\* nothing is stored, else the stored value itself.
StoredOrNull(stored) == IF stored = <<>> THEN JsNull ELSE stored[1]

\* C12: SOFTPHONE_SAVE_CREDENTIALS from the widget iframe stores its
\* credentials unchanged under softphoneCredentials, and
\* SOFTPHONE_REQUEST_CREDENTIALS from the widget iframe is answered with
\* SOFTPHONE_RESPONSE_CREDENTIALS carrying exactly the stored value, or null
\* when nothing is stored.
C12_CredentialsRelayed ==
  /\ (FromWidget /\ lastArg.data.type = "SOFTPHONE_SAVE_CREDENTIALS")
       => localCreds = <<lastArg.data.credentials>>
  /\ (FromWidget /\ lastArg.data.type = "SOFTPHONE_REQUEST_CREDENTIALS")
       => posted = <<ResponseCredentials(StoredOrNull(pre.localCreds), "iframe")>>

\* The last step told tab of a change of the credentials to a value whose
\* loggedIn is false.
LogoutChange ==
  /\ lastOp = "onChanged"
  /\ lastArg.change.key = "softphoneCredentials"
  /\ lastArg.change.newValue # <<>>
  /\ LoggedInIs(lastArg.change.newValue[1], FALSE)

ForceLogoutPosted ==
  \E i \in DOMAIN posted : posted[i].type = "SOFTPHONE_FORCE_LOGOUT"

\* C13: SOFTPHONE_LOGOUT_SYNC from the widget iframe stores {loggedIn: false}
\* and, where that changes the stored value, leaves the change to be
\* delivered to every tab; a tab with a widget iframe that is told of a
\* change to a value with loggedIn false posts SOFTPHONE_FORCE_LOGOUT to its
\* iframe; nothing else posts SOFTPHONE_FORCE_LOGOUT.
C13_LogoutPropagated ==
  /\ (FromWidget /\ lastArg.data.type = "SOFTPHONE_LOGOUT_SYNC") =>
       /\ localCreds = <<CredsOut>>
       /\ pre.localCreds # <<CredsOut>> =>
            \A tab \in Tabs :
              /\ changeQueue[tab] # <<>>
              /\ changeQueue[tab][Len(changeQueue[tab])].newValue = <<CredsOut>>
  /\ (LogoutChange /\ IframeIn(Cur, lastArg.tab)) =>
       posted = <<ForceLogout(lastArg.tab)>>
  /\ ~(LogoutChange /\ IframeIn(Cur, lastArg.tab)) => ~ForceLogoutPosted

\* The last step appended one notification element to the page.
ToastAdded == Len(notifications) = Len(pre.notifications) + 1

\* C14: every failure produces a notification element: an error while
\* creating the widget or reading the settings during init(), an invalid
\* number clicked on a tel: link or a highlighted number while the manager
\* listens for clicks, and an invalid number given to initiateCall.
C14_FailuresNotified ==
  /\ (lastOp = "init" /\ pre.isEnabled /\ lastArg) => ToastAdded
  /\ (lastOp = "init" /\ ~syncOk) => ToastAdded
  /\ (TelClick /\ docClick /\ ~isValidPhoneNumber(ClickedNumber(lastArg)))
       => ToastAdded
  /\ (lastOp = "initiateCall" /\ ~isValidPhoneNumber(cleanPhoneNumber(lastArg)))
       => ToastAdded

\* ---------------------------------------------------------------------------
\* Loads of the widget iframe and the re-sent call message
\* (content.js 101-113, 221-247).

MaxShows == 2   \* showWidget(number) calls in one run
MaxPosts == 3   \* SOFTPHONE_CALL messages followed per call

AutoLogin(credentials) ==
  [type |-> "SOFTPHONE_AUTOLOGIN", credentials |-> credentials]

\* The iframe's load event runs whichever handler iframe.onload holds: the
\* one of initializeWidget (auto-login when credentials are stored) or the one
\* the last showWidget(number) put in its place.
onload(s) ==
  IF s.iframeOnload = <<>>
    THEN s
    ELSE IF s.iframeOnload[1] = "call"
           THEN [s EXCEPT !.posted = <<CallMessage(s.iframeOnload[2])>>]
           ELSE IF s.localCreds # <<>> /\ ~Falsy(s.localCreds[1])
                  THEN [s EXCEPT !.posted = <<AutoLogin(s.localCreds[1])>>]
                  ELSE s

\* callPosts[i] counts the SOFTPHONE_CALL messages posted on behalf of the
\* i-th showWidget(number) call.
ShowWidgetFor ==
  /\ Running
  /\ Len(callPosts) < MaxShows
  /\ \E n \in {NumA, NumAFormatted, <<>>} :
       /\ Handler("showWidget", n, showWidget([Cur EXCEPT !.posted = <<>>], n))
       /\ callPosts' = IF widget # 0 /\ n # <<>>
                         THEN Append(callPosts, 0) ELSE callPosts
  /\ pc' = pc
  /\ UNCHANGED <<epoch, variant, fnVars, closure, dom>>

IframeLoads ==
  /\ variant = "content"
  /\ widget # 0
  /\ \A i \in DOMAIN callPosts : callPosts[i] < MaxPosts
  /\ Handler("iframeLoad", iframeOnload, onload([Cur EXCEPT !.posted = <<>>]))
  /\ callPosts' = IF iframeOnload # <<>> /\ iframeOnload[1] = "call"
                    THEN [callPosts EXCEPT ![Len(callPosts)] = @ + 1]
                    ELSE callPosts
  /\ pc' = pc
  /\ UNCHANGED <<epoch, variant, fnVars, closure, dom>>

\* Timers fire in the order they were set: the oldest pending timer belongs
\* to the call Len(callTimers) - 1 before the latest.
CallTimerSends ==
  /\ callTimers # <<>>
  /\ Handler("callTimer", Head(callTimers),
             [Cur EXCEPT !.callTimers = Tail(@),
                         !.posted = <<CallMessage(Head(callTimers))>>])
  /\ callPosts' = [callPosts EXCEPT ![Len(callPosts) - Len(callTimers) + 1] = @ + 1]
  /\ pc' = pc
  /\ UNCHANGED <<epoch, variant, fnVars, closure, dom>>

NextResend ==
  \/ DoInit
  \/ ShowWidgetFor
  \/ IframeLoads
  \/ CallTimerSends
  \/ ToastExpires
  \/ ListenerTimerFires
  \/ StorageWrite

SpecResend == InitWidget /\ [][NextResend]_vars

\* C15: for each showWidget(number) call, SOFTPHONE_CALL for its number is
\* posted to the iframe at most twice, whatever iframe loads and calls follow.
C15_AtMostTwoPosts == \A i \in DOMAIN callPosts : callPosts[i] <= 2

\* C16: after every addToCallHistory and every clearCallHistory (and every
\* step that changes the in-memory history) the value written to local
\* storage under callHistory equals the in-memory callHistory.
C16_HistoryPersisted ==
  (lastOp \in {"addToCallHistory", "clearCallHistory"}
     \/ callHistory # pre.callHistory)
    => localCallHistory = <<callHistory>>

C16_Witness ==
  /\ lastOp = "addToCallHistory"
  /\ Len(pre.callHistory) = HistoryCap
  /\ pre.localCallHistory = <<pre.callHistory>>
  /\ callHistory # pre.callHistory
  /\ localCallHistory = <<callHistory>>

\* ---------------------------------------------------------------------------
\* The widget operations and the storage callbacks with and without a widget
\* (content.js 189-266, 947-980).

NextGuards ==
  \/ DoInit
  \/ ShowWidget
  \/ HideWidget
  \/ ToggleWidget
  \/ StorageWrite
  \/ OnChanged
  \/ PushCreds
  \/ TabOpensWidget
  \/ ListenerTimerFires
  \/ CallTimerFires
  \/ ToastExpires

SpecGuards == InitWidget /\ [][NextGuards]_vars

\* The last step posted nothing and left the visibility, the display and the
\* outside-click handler as they were.
QuietStep ==
  /\ posted = <<>>
  /\ isWidgetVisible = pre.isWidgetVisible
  /\ widgetStyle.display = pre.display
  /\ outsideClickHandlerBound = pre.outsideClickHandlerBound
  /\ notifications = pre.notifications

\* C17: with no widget, showWidget, toggleWidget and hideWidget, and with no
\* iframe in its tab, the storage onChanged listener and pushCredsToIframe,
\* post no message and change neither isWidgetVisible nor the outside-click
\* handler.
C17_NoWidgetNoOp ==
  /\ (lastOp \in {"showWidget", "toggleWidget", "hideWidget"} /\ pre.widget = 0)
       => QuietStep
  /\ (lastOp = "pushCredsToIframe" /\ ~IframeIn(Cur, 1)) => QuietStep
  /\ (lastOp = "onChanged" /\ ~IframeIn(Cur, lastArg.tab)) => QuietStep

C17_Witness ==
  /\ lastOp = "showWidget"
  /\ lastArg = NumA
  /\ pc = "ready"
  /\ pre.widget = 0
  /\ QuietStep

\* ---------------------------------------------------------------------------
\* The throttle and debounce wrappers (content.js 17-18, 29-54).
\* Time is counted in units of TimeUnit ms. A timer set for a time may fire at that
\* time or at any later time.

TimeUnit == 10                        \* milliseconds in one unit of time
ThrottleDelay == 100 \div TimeUnit    \* this.throttle(..., 100)
DebounceDelay == 50 \div TimeUnit     \* this.debounce(..., 50)
StartTime == 1000     \* Date.now() when the wrappers are made
MaxElapsed == 24      \* time followed after StartTime
MaxPending == 2       \* timers that can be pending at once

TimerSlots == 1 .. MaxPending

\* The variables the returned function closes over (timeoutId, lastExecTime),
\* the timers of the page, the clock, and a record of what the wrapper did:
\* when it was last called, when func last ran, how often func ran, the time
\* between its last two runs, and whether every call so far came less than
\* the delay after the one before it.
Wrapper(kind, delay) ==
  [kind |-> kind, delay |-> delay, now |-> StartTime,
   timers |-> [slot \in TimerSlots |-> 0], timeoutId |-> 0, lastExecTime |-> 0,
   lastCall |-> 0, lastRun |-> 0, runs |-> 0, gap |-> -1, burst |-> TRUE,
   op |-> "wrap"]

FreeSlot(c) == CHOOSE slot \in TimerSlots :
                 /\ c.timers[slot] = 0
                 /\ \A other \in TimerSlots : c.timers[other] = 0 => slot <= other

HasFreeSlot(c) == \E slot \in TimerSlots : c.timers[slot] = 0

\* timeoutId = setTimeout(callback, ms)
setTimeout(c, ms) ==
  [c EXCEPT !.timers[FreeSlot(c)] = c.now + ms, !.timeoutId = FreeSlot(c)]

\* clearTimeout(timeoutId): nothing when the id is undefined or has fired.
clearTimeout(c) ==
  IF c.timeoutId = 0 THEN c ELSE [c EXCEPT !.timers[c.timeoutId] = 0]

\* func.apply(this, args)
func(c) ==
  [c EXCEPT !.runs = @ + 1, !.lastRun = c.now,
            !.gap = IF c.lastRun = 0 THEN -1 ELSE c.now - c.lastRun]

\* A call of the returned function arrives.
called(c) ==
  [c EXCEPT !.lastCall = c.now, !.op = "call",
            !.burst = @ /\ (c.lastCall = 0 \/ c.now - c.lastCall < c.delay)]

debounce_NoClear(c) == setTimeout(called(c), c.delay)

debounce(c) == setTimeout(clearTimeout(called(c)), c.delay)

debounceTimer(c, slot) ==
  func([c EXCEPT !.timers[slot] = 0, !.op = "timer"])

throttle(c) ==
  LET currentTime == c.now
      d == called(c)
  IN  IF currentTime - c.lastExecTime > c.delay
        THEN [func(d) EXCEPT !.lastExecTime = currentTime]
        ELSE setTimeout(clearTimeout(d), c.delay - (currentTime - c.lastExecTime))

throttleTimer(c, slot) ==
  LET d == func([c EXCEPT !.timers[slot] = 0, !.op = "timer"])
  IN  [d EXCEPT !.lastExecTime = d.now]

NoManagerStep ==
  UNCHANGED <<mgrVars, pageVars, timerVars, storeVars, tabVars, envVars, pc,
              epoch, variant, obsVars, fnVars, callPosts, dom>>

Tick ==
  /\ closure.now < StartTime + MaxElapsed
  /\ closure' = [closure EXCEPT !.now = @ + 1, !.op = "tick"]
  /\ NoManagerStep

DebouncedCall ==
  /\ closure.kind = "debounce"
  /\ HasFreeSlot(closure)
  /\ closure' = debounce(closure)
  /\ NoManagerStep

ThrottledCall ==
  /\ closure.kind = "throttle"
  /\ HasFreeSlot(closure)
  /\ closure' = throttle(closure)
  /\ NoManagerStep

TimerFires ==
  /\ \E slot \in TimerSlots :
       /\ closure.timers[slot] # 0
       /\ closure.timers[slot] <= closure.now
       /\ closure' = IF closure.kind = "debounce"
                       THEN debounceTimer(closure, slot)
                       ELSE throttleTimer(closure, slot)
  /\ NoManagerStep

InitWrapper(kind, delay) ==
  /\ InitManager(Constructed(Desktop, <<>>, TRUE, 0), "content", "constructed",
                 <<>>)
  /\ closure = Wrapper(kind, delay)
  /\ callPosts = <<>>
  /\ dom = <<>>

SpecDebounce ==
  /\ InitWrapper("debounce", DebounceDelay)
  /\ [][Tick \/ DebouncedCall \/ TimerFires]_vars

SpecThrottle ==
  /\ InitWrapper("throttle", ThrottleDelay)
  /\ [][Tick \/ ThrottledCall \/ TimerFires]_vars

TimerPending == \E slot \in TimerSlots : closure.timers[slot] # 0

\* C18: the debounced function runs only when the delay has passed since the
\* last call; and while every call has come less than the delay after the
\* one before it, the wrapped function has run at most once, a burst that
\* has not run yet has its run pending, and a burst that has run has none.
C18_DebounceCoalesces ==
  /\ closure.op = "timer" => closure.now - closure.lastCall >= closure.delay
  /\ (closure.burst /\ closure.lastCall # 0) =>
       /\ closure.runs <= 1
       /\ closure.runs = 0 => TimerPending
       /\ closure.runs = 1 =>
            (~TimerPending /\ closure.lastRun - closure.lastCall >= closure.delay)

C18_Witness ==
  /\ closure.kind = "debounce"
  /\ closure.op = "timer"
  /\ closure.burst
  /\ closure.runs = 1
  /\ closure.lastCall > StartTime + 2
  /\ closure.now > closure.lastCall + closure.delay

\* C19: the throttled function never runs twice less than the delay apart.
C19_ThrottleSpacing == closure.gap = -1 \/ closure.gap >= closure.delay

\* ---------------------------------------------------------------------------
\* The highlighter on a document tree (content.js 684-761).
\*
\* Markup is a sequence of atoms, each standing for a fixed run of
\* characters: tags, the two halves of the opening tag of a highlight span
\* around its title value, a phone number, a word without digits. The
\* document is the sequence of its nodes in document order: an opening entry
\* and a closing entry for every element, one entry for every text node.
\* Double quotes of the markup are written ' in the atoms.

MaxPasses == 3     \* highlightPhoneNumbers passes in one run
MaxChildren == 3   \* children of the page's root element

PhoneAtom == "9876543210"
WordAtom == "Tel: "
SpanHead == "<span class='softphone-highlighted-number' title='Click to call "
SpanMid == "'>"
SpanEnd == "</span>"
SpanCut == "<span class="
GtEscaped == "'&gt;"

PlainTags == {"DIV", "P", "B", "SCRIPT"}
RawTextTags == {"SCRIPT"}

OpenAtom(tag) ==
  CASE tag = "DIV" -> "<div>" [] tag = "P" -> "<p>" [] tag = "B" -> "<b>"
    [] tag = "SCRIPT" -> "<script>"

CloseAtom(tag) ==
  CASE tag = "DIV" -> "</div>" [] tag = "P" -> "</p>" [] tag = "B" -> "</b>"
    [] tag = "SCRIPT" -> "</script>" [] tag = "SPAN" -> SpanEnd

IsOpenAtom(a) == \E tag \in PlainTags : a = OpenAtom(tag)
IsCloseAtom(a) == \E tag \in PlainTags \cup {"SPAN"} : a = CloseAtom(tag)
OpenedTag(a) == CHOOSE tag \in PlainTags : a = OpenAtom(tag)
ClosedTag(a) == CHOOSE tag \in PlainTags \cup {"SPAN"} : a = CloseAtom(tag)

ElementStart(tag, id, highlighted, title) ==
  [kind |-> "open", id |-> id, tag |-> tag, highlighted |-> highlighted,
   title |-> title, text |-> <<>>]

ElementEnd(tag) ==
  [kind |-> "close", id |-> 0, tag |-> tag, highlighted |-> FALSE,
   title |-> <<>>, text |-> <<>>]

TextNode(id, text) ==
  [kind |-> "text", id |-> id, tag |-> "#text", highlighted |-> FALSE,
   title |-> <<>>, text |-> text]

\* The serializer escapes > in a text node, except inside a raw text element.
EscapeText(text) ==
  [k \in DOMAIN text |-> IF text[k] = SpanMid THEN GtEscaped ELSE text[k]]

Unescape(a) == IF a = GtEscaped THEN SpanMid ELSE a

RECURSIVE SerializeFrom(_, _)
SerializeFrom(nodes, raw) ==
  IF nodes = <<>>
    THEN <<>>
    ELSE LET n == Head(nodes)
         IN  CASE n.kind = "text" ->
                    (IF raw THEN n.text ELSE EscapeText(n.text))
                      \o SerializeFrom(Tail(nodes), raw)
               [] n.kind = "close" ->
                    <<CloseAtom(n.tag)>> \o SerializeFrom(Tail(nodes), FALSE)
               [] n.kind = "open" /\ n.highlighted ->
                    <<SpanHead>> \o n.title \o <<SpanMid>>
                      \o SerializeFrom(Tail(nodes), FALSE)
               [] OTHER ->
                    <<OpenAtom(n.tag)>>
                      \o SerializeFrom(Tail(nodes), n.tag \in RawTextTags)

\* element.innerHTML, read
innerHTML(nodes) == SerializeFrom(nodes, FALSE)

\* The fragment parser: its output so far, the open elements, the tokenizer
\* state ("data", "rawtext", or "attr" inside the title value of a span's
\* opening tag), the text and the title being collected, and the next fresh
\* node.
Parser(next) ==
  [out |-> <<>>, stack |-> <<>>, state |-> "data", text |-> <<>>,
   title |-> <<>>, dup |-> FALSE, next |-> next]

Flush(acc) ==
  IF acc.text = <<>>
    THEN acc
    ELSE [acc EXCEPT !.out = Append(@, TextNode(acc.next, acc.text)),
                     !.text = <<>>, !.next = @ + 1]

Pop(acc) ==
  [acc EXCEPT !.out = Append(@, ElementEnd(acc.stack[Len(acc.stack)])),
              !.stack = SubSeq(@, 1, Len(@) - 1)]

RECURSIVE PopTo(_, _)
PopTo(acc, tag) ==
  IF acc.stack[Len(acc.stack)] = tag THEN Pop(acc) ELSE PopTo(Pop(acc), tag)

RECURSIVE PopAll(_)
PopAll(acc) == IF acc.stack = <<>> THEN acc ELSE PopAll(Pop(acc))

Push(acc, tag, highlighted, title) ==
  [acc EXCEPT !.out = Append(@, ElementStart(tag, acc.next, highlighted, title)),
              !.stack = Append(@, tag), !.next = @ + 1]

Consume(acc, a) ==
  CASE acc.state = "data" /\ IsOpenAtom(a) ->
         [Push(Flush(acc), OpenedTag(a), FALSE, <<>>) EXCEPT
            !.state = IF OpenedTag(a) \in RawTextTags THEN "rawtext" ELSE "data"]
    [] acc.state = "data" /\ a = SpanHead ->
         [Flush(acc) EXCEPT !.state = "attr", !.title = <<>>, !.dup = FALSE]
    [] acc.state = "data" /\ IsCloseAtom(a) ->
         \* an end tag closes up to its element; with none open it is ignored
         IF \E k \in DOMAIN acc.stack : acc.stack[k] = ClosedTag(a)
           THEN PopTo(Flush(acc), ClosedTag(a))
           ELSE Flush(acc)
    [] acc.state = "data" ->
         [acc EXCEPT !.text = Append(@, Unescape(a))]
    [] acc.state = "rawtext" /\ a = CloseAtom(acc.stack[Len(acc.stack)]) ->
         [Pop(Flush(acc)) EXCEPT !.state = "data"]
    [] acc.state = "rawtext" ->
         [acc EXCEPT !.text = Append(@, a)]
    [] acc.state = "attr" /\ a = SpanMid ->
         \* the quote ends the title value and > ends the tag
         [Push(acc, "SPAN", TRUE, acc.title) EXCEPT !.state = "data"]
    [] acc.state = "attr" /\ a = SpanHead ->
         \* the first quote of the atom ends the title value; what follows is
         \* read as further attributes, the second title among them, which is
         \* dropped as a duplicate and whose value stays open
         IF acc.dup THEN acc
           ELSE [acc EXCEPT !.title = Append(@, SpanCut), !.dup = TRUE]
    [] OTHER ->
         IF acc.dup THEN acc ELSE [acc EXCEPT !.title = Append(@, Unescape(a))]

RECURSIVE ParseFrom(_, _)
ParseFrom(atoms, acc) ==
  IF atoms = <<>>
    THEN PopAll(IF acc.state = "attr" THEN acc ELSE Flush(acc))
    ELSE LET step == Consume(acc, Head(atoms))
         IN  \* node ids are positive
             IF step.next > 0 THEN ParseFrom(Tail(atoms), step) ELSE step

\* element.innerHTML = markup: the children are parsed anew.
Parse(atoms, next) == ParseFrom(atoms, Parser(next))

\* string.replace(pattern, replacement) with a string pattern: the first
\* occurrence only.
ReplaceFirst(str, pattern, replacement) ==
  LET hits == {i \in 1 .. Len(str) - Len(pattern) + 1 :
                 SubSeq(str, i, i + Len(pattern) - 1) = pattern}
  IN  IF hits = {} \/ pattern = <<>>
        THEN str
        ELSE LET i == CHOOSE h \in hits : \A g \in hits : h <= g
             IN  SubSeq(str, 1, i - 1) \o replacement
                   \o SubSeq(str, i + Len(pattern), Len(str))

\* The element around node i: its opening entry's index, 0 above the root.
RECURSIVE OpenBefore(_, _, _)
OpenBefore(nodes, j, depth) ==
  IF j = 0 THEN 0
  ELSE IF nodes[j].kind = "close" THEN OpenBefore(nodes, j - 1, depth + 1)
  ELSE IF nodes[j].kind = "text" THEN OpenBefore(nodes, j - 1, depth)
  ELSE IF depth = 0 THEN j ELSE OpenBefore(nodes, j - 1, depth - 1)

ParentIndex(nodes, i) == OpenBefore(nodes, i - 1, 0)

RECURSIVE CloseAfter(_, _, _)
CloseAfter(nodes, j, depth) ==
  IF nodes[j].kind = "open" THEN CloseAfter(nodes, j + 1, depth + 1)
  ELSE IF nodes[j].kind = "text" THEN CloseAfter(nodes, j + 1, depth)
  ELSE IF depth = 0 THEN j ELSE CloseAfter(nodes, j + 1, depth - 1)

\* The closing entry of the element opened at p.
CloseIndex(nodes, p) == CloseAfter(nodes, p + 1, 0)

\* The tree walker's filter for the text node at i.
acceptNode(d, i) ==
  LET p == ParentIndex(d.nodes, i)
  IN  /\ p # 0
      /\ d.nodes[p].id \notin d.processedElements
      /\ d.nodes[p].tag \notin ExcludedTags
      /\ ~d.nodes[p].highlighted

\* text with every match of phoneRegex wrapped in a highlight span
Wrapped(text) ==
  IF text = <<>> THEN <<>>
  ELSE LET RECURSIVE W(_)
           W(t) == IF t = <<>> THEN <<>>
                   ELSE (IF Head(t) = PhoneAtom
                           THEN <<SpanHead, PhoneAtom, SpanMid, PhoneAtom, SpanEnd>>
                           ELSE <<Head(t)>>) \o W(Tail(t))
       IN  W(text)

\* The body of processChunk's loop for the collected text node id. A node
\* that an earlier rewrite has detached from the document changes nothing
\* in it.
processNode(d, id) ==
  LET at == {i \in DOMAIN d.nodes : d.nodes[i].kind = "text" /\ d.nodes[i].id = id}
  IN  IF at = {}
        THEN d
        ELSE
          LET i == CHOOSE k \in at : TRUE
              text == d.nodes[i].text
              newHTML == Wrapped(text)
              p == ParentIndex(d.nodes, i)
              q == CloseIndex(d.nodes, p)
              html == innerHTML(SubSeq(d.nodes, p + 1, q - 1))
              parsed == Parse(ReplaceFirst(html, text, newHTML), d.next)
          IN  IF newHTML = text
                THEN d
                ELSE [d EXCEPT
                        !.nodes = SubSeq(d.nodes, 1, p) \o parsed.out
                                    \o SubSeq(d.nodes, q, Len(d.nodes)),
                        !.processedElements = @ \cup {d.nodes[p].id},
                        !.next = parsed.next]

RECURSIVE processChunk(_, _)
processChunk(d, textNodes) ==
  IF textNodes = <<>>
    THEN d
    ELSE processChunk(processNode(d, Head(textNodes)), Tail(textNodes))

\* One pass: the accepted text nodes are collected first, in document order,
\* and then processed. The pages of the model hold fewer than the ten text
\* nodes of a chunk, so a pass is one chunk.
highlightPass(d) ==
  LET accepted == SelectSeq([i \in DOMAIN d.nodes |-> i],
                            LAMBDA i : d.nodes[i].kind = "text" /\ acceptNode(d, i))
      textNodes == [k \in DOMAIN accepted |-> d.nodes[accepted[k]].id]
  IN  [processChunk(d, textNodes) EXCEPT !.passes = @ + 1]

\* The texts inside SCRIPT, STYLE, NOSCRIPT, IFRAME and OBJECT elements, in
\* document order.
ExcludedTexts(nodes) ==
  LET at == SelectSeq([i \in DOMAIN nodes |-> i],
                      LAMBDA i : /\ nodes[i].kind = "text"
                                 /\ ParentIndex(nodes, i) # 0
                                 /\ nodes[ParentIndex(nodes, i)].tag \in ExcludedTags)
  IN  [k \in DOMAIN at |-> nodes[at[k]].text]

\* The children a page's root element may have.
ChildMarkups ==
  {<<PhoneAtom>>, <<WordAtom>>,
   <<"<p>", PhoneAtom, "</p>">>, <<"<p>", WordAtom, PhoneAtom, "</p>">>,
   <<"<b>", WordAtom, "</b>">>, <<"<script>", PhoneAtom, "</script>">>,
   <<"<script>", WordAtom, "</script>">>}

RECURSIVE Concat(_)
Concat(seqs) == IF seqs = <<>> THEN <<>> ELSE Head(seqs) \o Concat(Tail(seqs))

PageMarkups ==
  {<<"<div>">> \o Concat(children) \o <<"</div>">> :
     children \in UNION {[1 .. n -> ChildMarkups] : n \in 1 .. MaxChildren}}

Document(markup) ==
  LET parsed == Parse(markup, 1)
  IN  [nodes |-> parsed.out, processedElements |-> {}, next |-> parsed.next,
       passes |-> 0, excluded |-> ExcludedTexts(parsed.out)]

HighlightPass ==
  /\ dom.passes < MaxPasses
  /\ dom' = highlightPass(dom)
  /\ UNCHANGED <<mgrVars, pageVars, timerVars, storeVars, tabVars, envVars, pc,
                 epoch, variant, obsVars, fnVars, closure, callPosts>>

InitHighlight ==
  /\ InitManager(Constructed(Desktop, <<>>, TRUE, 0), "content", "ready", <<>>)
  /\ closure = <<>>
  /\ callPosts = <<>>
  /\ \E markup \in PageMarkups : dom = Document(markup)

SpecHighlight == InitHighlight /\ [][HighlightPass]_vars

\* A highlight span lies inside another.
NestedHighlight ==
  \E i \in DOMAIN dom.nodes :
    /\ dom.nodes[i].kind = "open"
    /\ dom.nodes[i].highlighted
    /\ ParentIndex(dom.nodes, i) # 0
    /\ dom.nodes[ParentIndex(dom.nodes, i)].highlighted

\* C20: over any number of passes the text inside SCRIPT, STYLE, NOSCRIPT,
\* IFRAME and OBJECT elements stays as the page had it, every highlight span
\* keeps the title it was made with, and no highlight span lies inside
\* another.
C20_ExcludedNeverRewritten ==
  /\ ExcludedTexts(dom.nodes) = dom.excluded
  /\ \A i \in DOMAIN dom.nodes :
       (dom.nodes[i].kind = "open" /\ dom.nodes[i].highlighted)
         => dom.nodes[i].title = <<PhoneAtom>>
  /\ ~NestedHighlight

\* ---------------------------------------------------------------------------
\* The batches of one highlight pass (content.js 713-760).

ChunkSize == 10     \* Math.min(startIndex + 10, textNodes.length)
MaxTextNodes == 21  \* text nodes of the longest page

RECURSIVE Repeat(_, _)
Repeat(markup, k) == IF k = 0 THEN <<>> ELSE markup \o Repeat(markup, k - 1)

\* Pages of k elements with one text node each: all with a number, none with
\* a number, or the two in turn.
LongPageMarkups ==
  {<<"<div>">> \o Repeat(unit, k) \o rest \o <<"</div>">> :
     k \in 0 .. MaxTextNodes \div 2,
     unit \in {<<"<p>", PhoneAtom, "</p>", "<b>", WordAtom, "</b>">>,
               <<"<b>", WordAtom, "</b>", "<b>", WordAtom, "</b>">>,
               <<"<p>", PhoneAtom, "</p>", "<p>", PhoneAtom, "</p>">>},
     rest \in {<<>>, <<"<p>", PhoneAtom, "</p>">>}}

\* A document with the state of the pass that runs on it: the collected
\* text nodes, the animation frames requested (each with its startIndex),
\* the batches run and the nodes the loop has visited.
ChunkedDocument(markup) ==
  [nodes |-> Document(markup).nodes, processedElements |-> {},
   next |-> Document(markup).next, passes |-> 0,
   excluded |-> Document(markup).excluded,
   textNodes |-> <<>>, frames |-> <<>>, batches |-> 0, visited |-> <<>>]

processChunkAt_NoAdvance(d, startIndex) ==
  LET endIndex == Min(startIndex + ChunkSize, Len(d.textNodes))
      batch == SubSeq(d.textNodes, startIndex + 1, endIndex)
      done == processChunk(d, batch)
  IN  [done EXCEPT !.visited = @ \o batch, !.batches = @ + 1,
                   !.frames = IF endIndex < Len(d.textNodes)
                                THEN Append(@, startIndex + 1) ELSE @]

\* processChunk(startIndex): the nodes startIndex .. endIndex - 1 (counted
\* from 0) are processed, and a frame is requested for the rest.
processChunkAt(d, startIndex) ==
  LET endIndex == Min(startIndex + ChunkSize, Len(d.textNodes))
      batch == SubSeq(d.textNodes, startIndex + 1, endIndex)
      done == processChunk(d, batch)
  IN  [done EXCEPT !.visited = @ \o batch, !.batches = @ + 1,
                   !.frames = IF endIndex < Len(d.textNodes)
                                THEN Append(@, endIndex) ELSE @]

\* highlightPhoneNumbers(): the walk collects the accepted text nodes and the
\* first batch runs at once.
highlightChunked(d) ==
  LET accepted == SelectSeq([i \in DOMAIN d.nodes |-> i],
                            LAMBDA i : d.nodes[i].kind = "text" /\ acceptNode(d, i))
      textNodes == [k \in DOMAIN accepted |-> d.nodes[accepted[k]].id]
      started == [d EXCEPT !.textNodes = textNodes, !.visited = <<>>,
                           !.batches = 0, !.passes = @ + 1]
  IN  IF textNodes # <<>> THEN processChunkAt(started, 0) ELSE started

NoManagerChange ==
  UNCHANGED <<mgrVars, pageVars, timerVars, storeVars, tabVars, envVars, pc,
              epoch, variant, obsVars, fnVars, closure, callPosts>>

StartPass ==
  /\ dom.frames = <<>>
  /\ dom.passes < MaxPasses
  /\ dom' = highlightChunked(dom)
  /\ NoManagerChange

AnimationFrame ==
  /\ dom.frames # <<>>
  /\ Len(dom.visited) <= MaxTextNodes + ChunkSize
  /\ dom' = processChunkAt([dom EXCEPT !.frames = Tail(@)], Head(dom.frames))
  /\ NoManagerChange

InitChunks ==
  /\ InitManager(Constructed(Desktop, <<>>, TRUE, 0), "content", "ready", <<>>)
  /\ closure = <<>>
  /\ callPosts = <<>>
  /\ \E markup \in LongPageMarkups : dom = ChunkedDocument(markup)

SpecChunks == InitChunks /\ [][StartPass \/ AnimationFrame]_vars

\* ceil(n / ChunkSize)
Batches(n) == (n + ChunkSize - 1) \div ChunkSize

\* C21: in a pass the loop has visited a prefix of the collected nodes, in
\* collection order and each once: after b batches the first
\* min(10 b, N) of them; at most one further batch is requested at a time,
\* for the first node not yet visited; and with none requested all N nodes
\* have been visited in ceil(N / 10) batches.
C21_BatchesOfTen ==
  dom.passes > 0 =>
    /\ dom.visited = SubSeq(dom.textNodes, 1, Len(dom.visited))
    /\ Len(dom.visited) = Min(ChunkSize * dom.batches, Len(dom.textNodes))
    /\ Len(dom.frames) <= 1
    /\ dom.frames # <<>> =>
         (Head(dom.frames) = Len(dom.visited)
            /\ Len(dom.visited) < Len(dom.textNodes))
    /\ dom.frames = <<>> =>
         (dom.visited = dom.textNodes
            /\ dom.batches = Batches(Len(dom.textNodes)))

C21_Witness ==
  /\ dom.passes = 1
  /\ dom.frames = <<>>
  /\ Len(dom.textNodes) = MaxTextNodes
  /\ dom.batches = 3
  /\ dom.visited = dom.textNodes

\* ---------------------------------------------------------------------------
\* The visibility flag and the container's display (content.js 76-131,
\* 200-271, 904-915).

IncomingCall ==
  /\ variant = "content"
  /\ \E event \in MessageEvents :
       /\ event.data.type = "SOFTPHONE_INCOMING_CALL"
       /\ Step("message", event, windowMessage(Cur, event))
  /\ pc' = pc

NextVisible ==
  \/ DoInit
  \/ ShowWidget
  \/ HideWidget
  \/ ToggleWidget
  \/ ToggleExtension
  \/ Destroy
  \/ KeyDown
  \/ ClickOn
  \/ IncomingCall
  \/ ListenerTimerFires
  \/ CallTimerFires
  \/ ToastExpires

SpecVisible == InitWidget /\ [][NextVisible]_vars

\* C22: isWidgetVisible is true exactly when the widget container exists and
\* its display style is not 'none'.
C22_FlagMatchesDisplay ==
  isWidgetVisible <=>
    (widget # 0 /\ widget \in domContainers /\ widgetStyle.display # "none")

C22_Witness ==
  /\ lastOp = "click"
  /\ pre.isWidgetVisible
  /\ pre.display = "block"
  /\ ~isWidgetVisible
  /\ widget \in domContainers
  /\ widgetStyle.display = "none"

\* ---------------------------------------------------------------------------
\* showWidget, hideWidget and the zero-delay timers that register the
\* outside-click listener (content.js 211-219, 254-266), with several timers
\* pending at once.

MaxRacingTimers == 3   \* zero-delay timers pending at once

Racing(op, arg, t) ==
  /\ t.listenerTimers <= MaxRacingTimers
  /\ Record(op, arg, t)
  /\ UNCHANGED <<epoch, variant, fnVars, auxVars>>
  /\ pc' = pc

ShowWidgetRacing == Running /\ Racing("showWidget", <<>>, showWidget(Cur, <<>>))

HideWidgetRacing == Running /\ Racing("hideWidget", <<>>, hideWidget(Cur))

ToggleWidgetRacing == Running /\ Racing("toggleWidget", <<>>, toggleWidget(Cur))

\* () => document.addEventListener('click', this.outsideClickHandlerBound):
\* the field is read when the timer fires; a null listener registers nothing
\* and a listener already registered is not registered twice.
ZeroDelayTimerFires ==
  /\ listenerTimers > 0
  /\ Racing("listenerTimer", <<>>,
            [Cur EXCEPT !.listenerTimers = @ - 1,
                        !.outsideListeners =
                           IF outsideClickHandlerBound # 0
                             THEN @ \cup {outsideClickHandlerBound} ELSE @])

\* A click on an empty element of the page, on the floating button or inside
\* the widget.
OutsideClick ==
  /\ variant = "content"
  /\ \E t \in {x \in Targets(Cur) :
                 \/ x.kind \in {"button", "widget"}
                 \/ (x.kind = "element" /\ x.id = "d1")} :
       Racing("click", t, Click(Cur, t))

KeyDownRacing ==
  /\ Running
  /\ docKeydown
  /\ \E e \in KeyEvents : Racing("keydown", e, handleKeyboard(Cur, e))

NextOutside ==
  \/ DoInit
  \/ ShowWidgetRacing
  \/ HideWidgetRacing
  \/ ToggleWidgetRacing
  \/ ZeroDelayTimerFires
  \/ OutsideClick
  \/ KeyDownRacing

SpecOutside == InitWidget /\ [][NextOutside]_vars

\* C23: at most one outside-click listener is registered on the document,
\* it is the one the manager holds, and it is registered only while the
\* widget is visible.
C23_OneOutsideListener ==
  /\ Cardinality(outsideListeners) <= 1
  /\ outsideListeners # {} =>
       (isWidgetVisible /\ outsideListeners = {outsideClickHandlerBound})

C23_Witness ==
  /\ lastOp = "listenerTimer"
  /\ listenerTimers >= 1
  /\ outsideListeners = {outsideClickHandlerBound}
  /\ outsideClickHandlerBound # 0
  /\ isWidgetVisible

\* C24: after init() and before destroy(), the floating button is in the
\* page exactly when the extension is enabled and settings.showFloatingButton
\* is true.
C24_ButtonIffEnabledAndShown ==
  pc = "ready" =>
    (domButton <=> (isEnabled /\ Truthy(settings, "showFloatingButton")))

-----------------------------------------------------------------------------
(* The disabled extension: toggleExtension() turns isEnabled off, and the    *)
(* document listeners of setupEventListeners and the message handler stay.  *)

\* The requests handleMessage distinguishes by request.action.
Requests ==
  {[action |-> "toggleExtension"],
   [action |-> "openWidget", number |-> NumA],
   [action |-> "openWidget", number |-> NumShort],
   [action |-> "openWidget", number |-> <<>>],
   [action |-> "getCallHistory"],
   [action |-> "clearCallHistory"],
   [action |-> "updateSettings", settings |-> [highlightNumbers |-> FALSE]]}

\* handleMessage(request, sender, sendResponse): the state after the switch;
\* getCallHistory (and an unknown action) only answers.
handleMessage(s, request) ==
  CASE request.action = "toggleExtension" -> toggleExtension(s)
    [] request.action = "openWidget" -> showWidget(s, request.number)
    [] request.action = "clearCallHistory" -> clearCallHistory(s)
    [] request.action = "updateSettings" -> updateSettings(s, request.settings)
    [] OTHER -> s

ExtensionMessage ==
  /\ Running
  /\ \E request \in Requests :
       Step("message", request, handleMessage(Cur, request))
  /\ pc' = pc

NextDisabled ==
  \/ DoInit
  \/ ToggleExtension
  \/ ClickOn
  \/ KeyDown
  \/ ExtensionMessage
  \/ CallTimerFires
  \/ ToastExpires

SpecDisabled == InitWidget /\ [][NextDisabled]_vars

\* C25: a click, a key press or an extension message handled while isEnabled
\* is false (and staying false) adds no call-history entry, does not make
\* the widget visible (a SOFTPHONE_CALL is only ever scheduled by a
\* showWidget that makes the widget visible).
C25_DisabledIsInert ==
  (lastOp \in {"click", "keydown", "message"} /\ ~pre.isEnabled /\ ~isEnabled)
    => /\ Len(callHistory) <= Len(pre.callHistory)
       /\ (isWidgetVisible => pre.isWidgetVisible)

-----------------------------------------------------------------------------
(* Turning highlighting off while highlighting work is pending: the idle     *)
(* callback of scheduleHighlighting, the timer of throttledHighlight, the    *)
(* animation frames of a pass in progress and the mutation observer.  A     *)
(* new pass starts here only when no frame of an earlier pass is pending.   *)

MaxMutations == 1   \* elements the page adds on its own

\* element.textContent: the texts of the nodes, in document order
RECURSIVE textContent(_)
textContent(nodes) ==
  IF nodes = <<>> THEN <<>>
  ELSE (IF Head(nodes).kind = "text" THEN Head(nodes).text ELSE <<>>)
         \o textContent(Tail(nodes))

\* highlight.replaceWith(highlight.textContent) for each span of
\* querySelectorAll('.softphone-highlighted-number'), from index i on: a span
\* inside a replaced span is no longer in the document.
RECURSIVE ReplaceSpans(_, _, _)
ReplaceSpans(nodes, i, acc) ==
  IF i > Len(nodes)
    THEN acc
    ELSE IF nodes[i].kind = "open" /\ nodes[i].highlighted
      THEN LET q == CloseIndex(nodes, i)
               text == TextNode(acc.next, textContent(SubSeq(nodes, i + 1, q - 1)))
               step == [out |-> Append(acc.out, text), next |-> acc.next + 1]
           IN  IF step.next > 0 THEN ReplaceSpans(nodes, q + 1, step) ELSE step
      ELSE LET step == [acc EXCEPT !.out = Append(@, nodes[i])]
           IN  IF Len(step.out) > 0 THEN ReplaceSpans(nodes, i + 1, step) ELSE step

removeHighlightsIn(d) ==
  LET replaced == ReplaceSpans(d.nodes, 1, [out |-> <<>>, next |-> d.next])
  IN  [d EXCEPT !.nodes = replaced.out, !.next = replaced.next,
                !.processedElements = {}]

HasHighlight(d) ==
  \E i \in DOMAIN d.nodes : d.nodes[i].kind = "open" /\ d.nodes[i].highlighted

\* The page of a manager with its highlighting state: the setting, the idle
\* callbacks requested, whether the timer of throttledHighlight is pending,
\* whether the observer has element additions to report, and the elements
\* the page has added.
SwitchedDocument(markup) ==
  [nodes |-> ChunkedDocument(markup).nodes, processedElements |-> {},
   next |-> ChunkedDocument(markup).next, passes |-> 0,
   excluded |-> ChunkedDocument(markup).excluded,
   textNodes |-> <<>>, frames |-> <<>>, batches |-> 0, visited |-> <<>>,
   highlightNumbers |-> TRUE, idle |-> 1, timer |-> FALSE, observed |-> FALSE,
   mutations |-> 0, op |-> "init"]

\* The observer reports the element nodes added since before: the spans of a
\* rewrite and the elements it re-creates carry fresh ids.
Observing(d, before) ==
  [d EXCEPT !.observed =
     @ \/ \E i \in DOMAIN d.nodes :
            d.nodes[i].kind = "open" /\ d.nodes[i].id >= before.next]

\* highlightPhoneNumbers() with its guard on the setting
highlightIfOn(d) ==
  IF ~d.highlightNumbers THEN d ELSE Observing(highlightChunked(d), d)

\* updateSettings({highlightNumbers: value})
updateHighlightNumbers(d, value) ==
  LET d1 == [d EXCEPT !.highlightNumbers = value]
  IN  IF value THEN [d1 EXCEPT !.idle = Min(@ + 1, MaxIdle)]
               ELSE removeHighlightsIn(d1)

SwitchStep(d, op) ==
  /\ dom' = [d EXCEPT !.op = op]
  /\ NoManagerChange

SwitchHighlighting ==
  \E value \in BOOLEAN :
    /\ value # dom.highlightNumbers
    /\ SwitchStep(updateHighlightNumbers(dom, value), "updateSettings")

CanStartPass == dom.frames = <<>> /\ dom.passes < MaxPasses

IdleCallback ==
  /\ dom.idle > 0
  /\ CanStartPass
  /\ SwitchStep(highlightIfOn([dom EXCEPT !.idle = @ - 1]), "idle")

\* a batch of the pass in progress
PendingFrame ==
  /\ dom.frames # <<>>
  /\ SwitchStep(Observing(processChunkAt([dom EXCEPT !.frames = Tail(@)],
                                         Head(dom.frames)), dom), "frame")

\* The page appends <p>9876543210</p> to its root element.
PageAdds ==
  /\ dom.mutations < MaxMutations
  /\ LET added == Parse(<<"<p>", PhoneAtom, "</p>">>, dom.next)
     IN  SwitchStep([dom EXCEPT
                       !.nodes = SubSeq(@, 1, Len(@) - 1) \o added.out
                                   \o <<@[Len(@)]>>,
                       !.next = added.next, !.observed = TRUE,
                       !.mutations = @ + 1], "page")

\* The observer's callback calls throttledHighlight(): the pass runs at once
\* when more than 100 ms have passed since the last one, else the timer is
\* set anew.
ObserverCallback ==
  /\ dom.observed
  /\ \E elapsed \in BOOLEAN :
       IF elapsed
         THEN /\ CanStartPass
              /\ SwitchStep(highlightIfOn([dom EXCEPT !.observed = FALSE]),
                            "observer")
         ELSE SwitchStep([dom EXCEPT !.observed = FALSE, !.timer = TRUE],
                         "observer")

ThrottleTimerFires ==
  /\ dom.timer
  /\ CanStartPass
  /\ SwitchStep(highlightIfOn([dom EXCEPT !.timer = FALSE]), "timer")

\* pages of less than a batch and pages of more than two batches
SwitchPageMarkups ==
  {m \in LongPageMarkups :
     Len(m) <= 6 * 2 \/ Len(m) > 6 * (ChunkSize - 1)}

InitSwitch ==
  /\ InitManager(Constructed(Desktop, <<>>, TRUE, 0), "content", "ready", <<>>)
  /\ closure = <<>>
  /\ callPosts = <<>>
  /\ \E markup \in SwitchPageMarkups : dom = SwitchedDocument(markup)

NextSwitch ==
  \/ SwitchHighlighting
  \/ IdleCallback
  \/ PendingFrame
  \/ PageAdds
  \/ ObserverCallback
  \/ ThrottleTimerFires

SpecSwitch == InitSwitch /\ [][NextSwitch]_vars

\* C26: while settings.highlightNumbers is false (updateSettings has turned
\* it off and not on again), the document holds no highlighted span.
C26_NoSpansWhileOff == ~dom.highlightNumbers => ~HasHighlight(dom)

-----------------------------------------------------------------------------
(* The stored call history across page reloads and tabs: every manager      *)
(* starts with callHistory = [] and writes its own list to the one          *)
(* chrome.storage.local.  closure holds the list of a manager in another    *)
(* tab.                                                                      *)

\* The list stored under callHistory; nothing stored reads as no entries.
StoredHistory(stored) == IF stored = <<>> THEN <<>> ELSE stored[1]

\* A reload of the page: the constructor and init() run again; the sync and
\* local storage areas keep their contents.
reload(s) ==
  init([Constructed(s.viewport, s.syncSettings, s.syncOk, s.clock) EXCEPT
          !.localCallHistory = s.localCallHistory,
          !.localCreds = s.localCreds], FALSE)

Reload ==
  /\ Running
  /\ Step("reload", <<>>, reload(Cur))
  /\ pc' = "ready"

\* addToCallHistory of the manager in the other tab, on its own list
OtherTabAdds ==
  /\ Running
  /\ LET other == addToCallHistory([Cur EXCEPT !.callHistory = closure], NumB)
     IN  /\ Handler("otherTab", NumB, [other EXCEPT !.callHistory = callHistory])
         /\ closure' = other.callHistory
  /\ UNCHANGED <<epoch, variant, fnVars, callPosts, dom>>
  /\ pc' = pc

NextShared ==
  \/ AddToCallHistory
  \/ ClearCallHistory
  \/ Reload
  \/ OtherTabAdds

SpecShared == InitHistory /\ [][NextShared]_vars

\* C27: a step other than clearCallHistory removes an entry from the stored
\* callHistory only by the 50-entry eviction: every entry stored before the
\* step is stored after it, or the stored list is full.
C27_StoredEntriesKept ==
  lastOp # "clearCallHistory" =>
    \/ Len(StoredHistory(localCallHistory)) = HistoryCap
    \/ \A i \in DOMAIN StoredHistory(pre.localCallHistory) :
         \E j \in DOMAIN StoredHistory(localCallHistory) :
           StoredHistory(localCallHistory)[j]
             = StoredHistory(pre.localCallHistory)[i]

-----------------------------------------------------------------------------
(* The paths to a SOFTPHONE_CALL post: a click on the page or on a tel:      *)
(* link, and the openWidget request of handleMessage.                        *)

OpenWidgetMessage ==
  /\ Running
  /\ \E request \in {r \in Requests : r.action = "openWidget"} :
       Step("message", request, handleMessage(Cur, request))
  /\ pc' = pc

NextCalls ==
  \/ DoInit
  \/ ClickOn
  \/ OpenWidgetMessage
  \/ ListenerTimerFires
  \/ CallTimerFires
  \/ ToastExpires

SpecCalls == InitWidget /\ [][NextCalls]_vars

\* C28: every SOFTPHONE_CALL message posted carries a number that
\* isValidPhoneNumber accepts and that an entry of callHistory records.
C28_CallsValidAndRecorded ==
  \A i \in DOMAIN posted :
    posted[i].type = "SOFTPHONE_CALL" =>
      /\ isValidPhoneNumber(posted[i].number)
      /\ \E j \in DOMAIN callHistory : callHistory[j].number = posted[i].number

-----------------------------------------------------------------------------
(* Credentials after a logout: the iframe's load handler and                 *)
(* pushCredsToIframe read chrome.storage.local when they run.                *)

NextLogout ==
  \/ DoInit
  \/ StorageWrite
  \/ IframeLoads
  \/ PushCreds
  \/ ShowWidgetFor
  \/ CallTimerSends
  \/ ListenerTimerFires
  \/ ToastExpires

SpecLogout == InitWidget /\ [][NextLogout]_vars

\* C29: while the stored softphoneCredentials are the logout marker
\* { loggedIn: false }, no SOFTPHONE_AUTOLOGIN and no
\* SOFTPHONE_RESPONSE_CREDENTIALS message is posted to the iframe.
C29_NoCredentialsAfterLogout ==
  (localCreds # <<>> /\ LoggedInIs(localCreds[1], FALSE)) =>
    \A i \in DOMAIN posted :
      posted[i].type \notin {"SOFTPHONE_AUTOLOGIN",
                             "SOFTPHONE_RESPONSE_CREDENTIALS"}

-----------------------------------------------------------------------------
(* The loop of the highlighter and the mutation observer: a pass rewrites   *)
(* elements, the observer reports the elements added and calls              *)
(* throttledHighlight, which runs or schedules the next pass.  Each pass    *)
(* keeps its own textNodes list for its later batches, so passes overlap.   *)

MaxMarkup == 10   \* atoms of the longest short page

\* Short pages with nested and excluded elements, and pages of more than one
\* batch.
LoopPageMarkups ==
  {m \in PageMarkups : Len(m) <= MaxMarkup}
    \cup {m \in LongPageMarkups : Len(m) > 6 * (ChunkSize - 1)}

LoopDocument(markup) ==
  [nodes |-> SwitchedDocument(markup).nodes, processedElements |-> {},
   next |-> SwitchedDocument(markup).next, passes |-> 0,
   excluded |-> SwitchedDocument(markup).excluded,
   textNodes |-> <<>>, frames |-> <<>>, batches |-> 0, visited |-> <<>>,
   highlightNumbers |-> TRUE, idle |-> 1, timer |-> FALSE, observed |-> FALSE,
   mutations |-> 0, op |-> "init", jobs |-> <<>>]

\* The state after a batch ran: the frame it requested joins the pending
\* ones with the textNodes of its pass; the pass counter saturates.
Requested(d, ran) ==
  [Observing(ran, d) EXCEPT
     !.jobs = IF ran.frames # <<>>
                THEN Append(@, [textNodes |-> ran.textNodes,
                                startIndex |-> Head(ran.frames)])
                ELSE @,
     !.frames = <<>>, !.textNodes = <<>>, !.visited = <<>>, !.batches = 0,
     !.passes = Min(@, MaxPasses)]

\* highlightPhoneNumbers()
startPass(d) == Requested(d, highlightChunked(d))

\* requestAnimationFrame(() => processChunk(endIndex))
runFrame(d) ==
  LET job == Head(d.jobs)
      rest == [d EXCEPT !.jobs = Tail(@)]
  IN  Requested(rest, processChunkAt([rest EXCEPT !.textNodes = job.textNodes],
                                     job.startIndex))

\* the callback of the MutationObserver, unfiltered
observerCallback_AnyMutation(d, elapsed) ==
  IF elapsed THEN [startPass(d) EXCEPT !.observed = TRUE]
             ELSE [d EXCEPT !.observed = TRUE, !.timer = TRUE]

\* The callback of the MutationObserver for added element nodes:
\* throttledHighlight() runs the pass at once when more than 100 ms have
\* passed since the last run, else it sets its timer anew.
observerCallback(d, elapsed) ==
  IF elapsed THEN startPass([d EXCEPT !.observed = FALSE])
             ELSE [d EXCEPT !.observed = FALSE, !.timer = TRUE]

LoopIdle ==
  /\ dom.idle > 0
  /\ SwitchStep(startPass([dom EXCEPT !.idle = @ - 1]), "idle")

LoopFrame ==
  /\ dom.jobs # <<>>
  /\ SwitchStep(runFrame(dom), "frame")

LoopObserver ==
  /\ dom.observed
  /\ \E elapsed \in BOOLEAN :
       SwitchStep(observerCallback(dom, elapsed), "observer")

LoopTimer ==
  /\ dom.timer
  /\ SwitchStep(startPass([dom EXCEPT !.timer = FALSE]), "timer")

\* showNotification('Calling 9876543210...'): a toast is appended to the body
LoopToast ==
  /\ dom.mutations < MaxMutations
  /\ LET added == Parse(<<"<div>", WordAtom, PhoneAtom, "</div>">>, dom.next)
     IN  SwitchStep([dom EXCEPT
                       !.nodes = SubSeq(@, 1, Len(@) - 1) \o added.out
                                   \o <<@[Len(@)]>>,
                       !.next = added.next, !.observed = TRUE,
                       !.mutations = @ + 1], "toast")

InitLoop ==
  /\ InitManager(Constructed(Desktop, <<>>, TRUE, 0), "content", "ready", <<>>)
  /\ closure = <<>>
  /\ callPosts = <<>>
  /\ \E markup \in LoopPageMarkups : dom = LoopDocument(markup)

NextLoop ==
  \/ LoopIdle
  \/ LoopFrame
  \/ LoopObserver
  \/ LoopTimer
  \/ LoopToast

\* The browser runs every idle callback, animation frame, observer callback
\* and timer it holds: weak fairness of each of the four actions.  Each is
\* enabled exactly when its first conjunct holds (every step changes dom),
\* so WF_vars(A) is written out as []<>(~ENABLED <<A>>_vars) \/ []<><<A>>_vars
\* with that conjunct for ENABLED <<A>>_vars.
LoopFairness ==
  /\ []<>(dom.idle = 0) \/ []<><<LoopIdle>>_vars
  /\ []<>(dom.jobs = <<>>) \/ []<><<LoopFrame>>_vars
  /\ []<>(~dom.observed) \/ []<><<LoopObserver>>_vars
  /\ []<>(~dom.timer) \/ []<><<LoopTimer>>_vars

SpecLoop == InitLoop /\ [][NextLoop]_vars /\ LoopFairness

\* No pass is scheduled or in progress.
Quiescent ==
  /\ dom.idle = 0
  /\ dom.jobs = <<>>
  /\ ~dom.observed
  /\ ~dom.timer

\* C30: the passes come to an end: from some point on no pass is scheduled
\* or in progress (the last pass added no element, or it would have
\* scheduled another).
C30_LoopTerminates == <>[]Quiescent

C30_Witness ==
  /\ Quiescent
  /\ dom.passes >= 2
  /\ dom.mutations = MaxMutations
  /\ HasHighlight(dom)

====
